---- MODULE Spec2Model ----
(***************************************************************************)
(* Gen-SAFE AI service: the three generation pipelines of                  *)
(* services/aiService.js (generateFMECA, generateFTA,                      *)
(* generateSystemStructure), the canned payloads they fall back to, the    *)
(* keyword classifier, and the /api/analysis/generate route with the       *)
(* global error handler.                                                   *)
(*                                                                         *)
(* Text is modelled as a sequence of tokens.  A reply of the completion    *)
(* endpoint is a sequence of JSON lexeme groups: the braces, the comma, a  *)
(* prose character, a whole member ("key": value) and a bare value.  A     *)
(* member's value never reaches outside the braces of its object, so the   *)
(* brace scan of the regular expression and the grammar of JSON.parse are  *)
(* both decided on the token sequence.  Prompts, diagram texts and error   *)
(* messages are sequences of string pieces, concatenated as the template   *)
(* literals of the source concatenate them.                                *)
(***************************************************************************)
EXTENDS Integers, Sequences, FiniteSets, TLC

VARIABLES
    fn,               \* the service function that was called, "none" before the call
    pc,               \* "idle", "awaiting" (completion request in flight), "done"
    args,             \* the arguments of the call
    prompt,           \* the prompt handed to the completion endpoint, <<>> if none
    completion,       \* how the completion request settled
    parsed,           \* what JSON.parse returned inside the call
    result,           \* how the returned promise settled
    completionCalls,  \* number of openai.chat.completions.create invocations
    routePc,          \* POST /generate: "idle", "awaitingAll", "responded"
    reqBody,          \* the body of the request
    reqStructured,    \* isStructured, the flag the route's validation computed
    fmeca,            \* the generateFMECA call of the request: [pc, result]
    fta,              \* the generateFTA call of the request: [pc, result]
    responses,        \* the HTTP responses sent for the request, in order
    calls,            \* concurrent service calls: [fn, args, pc, outcome, ref, mutated]
    heap,             \* the objects returned to callers, by address
    now,              \* the time, in ticks
    hits,             \* analysisLimiter: requests counted per client IP in its window
    window,           \* analysisLimiter: per client IP, the window's number and reset time
    letThrough,       \* per client IP, the requests handed to the routes: [at, window]
    zoom,             \* FTADiagram: the zoom state, in tenths
    exportPc,         \* exportToPDF: "idle", "waiting", "rendering", "saved", "failed"
    originalZoom,     \* exportToPDF: the zoom read when the export was started
    exportCopy        \* the copy of the component whose exportToPDF was started

svcVars == <<fn, pc, args, prompt, completion, parsed, result>>
routeVars == <<routePc, reqBody, reqStructured, fmeca, fta, responses>>
heapVars == <<calls, heap>>
limiterVars == <<now, hits, window, letThrough>>
viewVars == <<zoom, exportPc, originalZoom, exportCopy>>
vars == <<svcVars, completionCalls, routeVars, heapVars, limiterVars, viewVars>>

(***************************************************************************)
(* Bounds of the explored inputs.                                          *)
(***************************************************************************)
MaxAffix == 1        \* tokens of text before / after the body of a reply
MaxComponents == 2   \* components of a structured description

(***************************************************************************)
(* Generic sequence helpers.                                               *)
(***************************************************************************)
SeqsUpTo(S, n) == UNION {[1..k -> S] : k \in 0..n}

\* Array.prototype.join: the pieces of the items with sep between two items
RECURSIVE Join(_, _)
Join(items, sep) ==
    IF items = <<>> THEN <<>>
    ELSE IF Len(items) = 1 THEN Head(items)
    ELSE Head(items) \o <<sep>> \o Join(Tail(items), sep)

\* String.prototype.includes on token sequences: pat occurs contiguously in s
Includes(s, pat) ==
    \E i \in 0..(Len(s) - Len(pat)) :
        \A j \in 1..Len(pat) : s[i + j] = pat[j]

EndsWith(s, suffix) ==
    /\ Len(suffix) <= Len(s)
    /\ SubSeq(s, Len(s) - Len(suffix) + 1, Len(s)) = suffix

(***************************************************************************)
(* JSON values and reply tokens.                                           *)
(***************************************************************************)
NoVal == [t |-> "none", s |-> <<>>]
Str(pieces) == [t |-> "str", s |-> pieces]
Num(n) == [t |-> "num", s |-> <<n>>]
Arr(items) == [t |-> "arr", s |-> items]
Obj(tag) == [t |-> "obj", s |-> <<tag>>]
Null == [t |-> "null", s |-> <<"null">>]

LBrace == [k |-> "{", v |-> NoVal]
RBrace == [k |-> "}", v |-> NoVal]
Comma == [k |-> ",", v |-> NoVal]
Prose == [k |-> "x", v |-> NoVal]
Space == [k |-> " ", v |-> NoVal]
Member(key, val) == [k |-> key, v |-> val]
Bare(val) == [k |-> "", v |-> val]

Punct == {"{", "}", ",", "x", " ", ""}
IsMember(tok) == tok.k \notin Punct
IsBare(tok) == tok.k = ""

\* JavaScript truthiness of a parsed value
Truthy(v) ==
    CASE v.t = "str" -> v.s # <<>>
      [] v.t = "num" -> v.s # <<"0">>
      [] v.t = "null" -> FALSE
      [] v.t = "none" -> FALSE      \* undefined
      [] OTHER -> TRUE              \* arrays and objects

IsArray(v) == v.t = "arr"

\* String(v), as the + operator converts its left operand
JsString(v) ==
    CASE v.t = "obj" -> <<"[object Object]">>
      [] OTHER -> v.s

\* property read v[key]: undefined (NoVal) unless v is an object that has key
GetField(v, key) ==
    IF v.t = "object" /\ key \in DOMAIN v.fields THEN v.fields[key] ELSE NoVal

\* reading a property of null or undefined throws a TypeError
ReadThrows(v) == v.t \in {"null", "none"}

(***************************************************************************)
(* responseText.match(/\{[\s\S]*\}/): the span from the first "{" to the   *)
(* last "}" behind it, if there is one.                                    *)
(***************************************************************************)
BraceAt(text, c) == {i \in 1..Len(text) : text[i].k = c}

Min(S) == CHOOSE m \in S : \A n \in S : m <= n
Max(S) == CHOOSE m \in S : \A n \in S : m >= n

HasMatch(text) ==
    /\ BraceAt(text, "{") # {}
    /\ \E j \in BraceAt(text, "}") : j > Min(BraceAt(text, "{"))

JsonMatch(text) ==
    SubSeq(text, Min(BraceAt(text, "{")), Max(BraceAt(text, "}")))

\* faulty variant: the reply is parsed as it stands, without the extraction
JsonTextWhole(text) == text

\* const jsonText = jsonMatch ? jsonMatch[0] : responseText
JsonText(text) == IF HasMatch(text) THEN JsonMatch(text) ELSE text

(***************************************************************************)
(* JSON.parse on a token sequence: a bare value, or an object              *)
(* "{" [member ("," member)*] "}", with white space allowed between the    *)
(* tokens.  A repeated key keeps its last value.  ok = FALSE stands for    *)
(* the SyntaxError it throws.                                              *)
(***************************************************************************)
Failed == [ok |-> FALSE, val |-> NoVal]

RECURSIVE SkipSpace(_)
SkipSpace(text) ==
    IF text = <<>> THEN <<>>
    ELSE IF Head(text) = Space THEN SkipSpace(Tail(text))
    ELSE <<Head(text)>> \o SkipSpace(Tail(text))

MembersWellFormed(inner) ==
    \/ inner = <<>>
    \/ /\ Len(inner) % 2 = 1
       /\ \A i \in 1..Len(inner) :
             IF i % 2 = 1 THEN IsMember(inner[i]) ELSE inner[i] = Comma

FieldsOf(inner) ==
    LET idx == {i \in 1..Len(inner) : IsMember(inner[i])}
        keys == {inner[i].k : i \in idx}
    IN  [key \in keys |-> inner[Max({i \in idx : inner[i].k = key})].v]

IsObjectText(text) ==
    /\ Len(text) >= 2
    /\ text[1] = LBrace
    /\ text[Len(text)] = RBrace
    /\ MembersWellFormed(SubSeq(text, 2, Len(text) - 1))

JSONParse(raw) ==
    LET text == SkipSpace(raw)
    IN  IF Len(text) = 1 /\ IsBare(text[1])
        THEN [ok |-> TRUE, val |-> text[1].v]
        ELSE IF IsObjectText(text)
        THEN [ok |-> TRUE,
              val |-> [t |-> "object", fields |-> FieldsOf(SubSeq(text, 2, Len(text) - 1))]]
        ELSE Failed

\* String.prototype.trim: white space removed at both ends
RECURSIVE TrimStart(_)
TrimStart(text) ==
    IF text # <<>> /\ Head(text) = Space THEN TrimStart(Tail(text)) ELSE text

RECURSIVE TrimEnd(_)
TrimEnd(text) ==
    IF text # <<>> /\ text[Len(text)] = Space
    THEN TrimEnd(SubSeq(text, 1, Len(text) - 1))
    ELSE text

Trim(text) == TrimEnd(TrimStart(text))

(***************************************************************************)
(* Outcomes of openai.chat.completions.create.                             *)
(***************************************************************************)
ErrorCodes == {"insufficient_quota", "invalid_api_key", "ECONNRESET", "none"}
ErrorStatuses == {"429", "401", "500", "none"}
Errors == [kind : {"error"}, code : ErrorCodes, status : ErrorStatuses]

\* the TypeError a failed property read or method call throws
TypeError == [kind |-> "error", code |-> "none", status |-> "none"]

NullContent == [isNull |-> TRUE, text |-> <<>>]
Content(text) == [isNull |-> FALSE, text |-> text]
Completion(choices) == [kind |-> "completion", choices |-> choices]
NoCompletion == [kind |-> "none"]

(***************************************************************************)
(* Replies explored: a body (an object of the report kind, cut anywhere,   *)
(* or a bare value) between a prefix and a suffix of prose and braces.     *)
(***************************************************************************)
Kinds == {"generateFMECA", "generateFTA", "generateSystemStructure"}

KeysOf(kind) ==
    CASE kind = "generateFMECA" -> <<"fmecaTable", "summary">>
      [] kind = "generateFTA" -> <<"topEvent", "mermaidDiagram">>
      [] kind = "generateSystemStructure" -> <<"components", "connections", "safetyStandards">>

FieldValues(key) ==
    CASE key = "fmecaTable" -> {Arr(<<"entry">>)}
      [] key = "summary" -> {Obj("summary")}
      [] key = "topEvent" -> {Str(<<"hazard">>)}
      [] key = "mermaidDiagram" -> {Str(<<"flowchart TD">>), Str(<<>>), Num("7"), Null}
      [] key = "components" -> {Arr(<<"component">>), Arr(<<>>), Str(<<"none">>)}
      [] key = "connections" -> {Arr(<<"connection">>), Arr(<<>>)}
      [] key = "safetyStandards" -> {Arr(<<"standard">>), Null}

RECURSIVE MemberSeqs(_)
MemberSeqs(keys) ==
    IF keys = <<>> THEN {<<>>}
    ELSE LET rest == MemberSeqs(Tail(keys))
         IN  rest \cup {<<Member(Head(keys), v)>> \o r : v \in FieldValues(Head(keys)), r \in rest}

Render(members) ==
    <<LBrace>> \o Join([i \in 1..Len(members) |-> <<members[i]>>], Comma) \o <<RBrace>>

BareValues == {Null, Num("7"), Arr(<<>>)}

Prefixes(text) == {SubSeq(text, 1, n) : n \in 0..Len(text)}

Bodies(kind) ==
    UNION {Prefixes(Render(m)) : m \in MemberSeqs(KeysOf(kind))}
        \cup {<<Bare(v)>> : v \in BareValues}

Affixes == SeqsUpTo({Prose, Space, LBrace, RBrace}, MaxAffix)

Replies(kind) == {p \o b \o q : p \in Affixes, b \in Bodies(kind), q \in Affixes}

Completions(kind) ==
    {Completion(<<>>), Completion(<<[content |-> NullContent]>>)}
        \cup {Completion(<<[content |-> Content(r)]>>) : r \in Replies(kind)}

(***************************************************************************)
(* Settled promises.                                                       *)
(***************************************************************************)
Pending == [status |-> "pending"]
Resolved(v) == [status |-> "resolved", value |-> v]
Rejected(m) == [status |-> "rejected", message |-> m]

(***************************************************************************)
(* Error messages, as word sequences.                                      *)
(***************************************************************************)
QuotaMessage ==
    <<"OpenAI", "API", "quota", "exceeded.", "Please", "check", "your", "API",
      "usage", "and", "billing.">>
CredentialMessage ==
    <<"Invalid", "OpenAI", "API", "key.", "Please", "check", "your", "configuration.">>
RateLimitMessage ==
    <<"OpenAI", "API", "rate", "limit", "exceeded.", "Please", "try", "again", "later.">>

(***************************************************************************)
(* Canned payloads.                                                        *)
(***************************************************************************)
MockSystemName(systemDescription, isStructured) ==
    IF isStructured THEN systemDescription.systemName ELSE "System"

generateMockFMECA(systemDescription, isStructured) ==
    LET systemName == MockSystemName(systemDescription, isStructured)
    IN  [fmecaTable |-> <<
            [itemFunction |-> <<systemName, " - Primary Component">>,
             failureMode |-> "Complete failure",
             failureCause |-> "Component degradation, environmental stress",
             localEffect |-> "Loss of component function",
             systemEffect |-> "Reduced system capability",
             endEffect |-> "Potential safety hazard",
             severity |-> 8, occurrence |-> 3, detection |-> 4, rpn |-> 96,
             recommendedAction |-> "Implement redundancy and monitoring"],
            [itemFunction |-> <<systemName, " - Control Unit">>,
             failureMode |-> "Intermittent operation",
             failureCause |-> "Software fault, electrical interference",
             localEffect |-> "Erratic control behavior",
             systemEffect |-> "System instability",
             endEffect |-> "Degraded performance",
             severity |-> 6, occurrence |-> 4, detection |-> 3, rpn |-> 72,
             recommendedAction |-> "Improve software validation and EMI protection"],
            [itemFunction |-> <<systemName, " - Sensor">>,
             failureMode |-> "False readings",
             failureCause |-> "Calibration drift, contamination",
             localEffect |-> "Incorrect data output",
             systemEffect |-> "Poor decision making",
             endEffect |-> "System malfunction",
             severity |-> 7, occurrence |-> 5, detection |-> 2, rpn |-> 70,
             recommendedAction |-> "Regular calibration and self-diagnostics"]
         >>,
         summary |-> [totalFailureModes |-> 3, highRiskItems |-> 1, averageRPN |-> 79,
                      keyRecommendations |-> <<"Implement comprehensive monitoring system",
                                               "Add redundancy for critical components",
                                               "Establish regular maintenance schedule">>]]

\* the five classDef lines, the same in the appended block and in the canned diagram
ClassDefs ==
    <<"classDef gate fill:#2c3e50,stroke:#34495e,stroke-width:3px,color:#ffffff,font-weight:700;",
      "classDef event fill:#ecf0f1,stroke:#2c3e50,stroke-width:2px,color:#2c3e50,font-weight:600;",
      "classDef top fill:#e74c3c,stroke:#c0392b,stroke-width:3px,color:#ffffff,font-weight:700;",
      "classDef intermediate fill:#3498db,stroke:#2980b9,stroke-width:2px,color:#ffffff,font-weight:600;",
      "classDef basic fill:#f39c12,stroke:#e67e22,stroke-width:2px,color:#ffffff,font-weight:600;">>

\* the class-to-node-id assignment list generateFTA appends
ClassAssignments ==
    <<"class G1,G2,G3,G4,G5,G6 gate;",
      "class B,C,D,E,F,G,H,I,J,K intermediate;",
      "class L,M,N,O,P,Q,R,S,T,U basic;",
      "class A top;">>

\* the text generateFTA appends to a parsed diagram
StylingBlock ==
    <<"", "%% Professional FTA Styling">> \o ClassDefs \o <<"">> \o ClassAssignments

\* the class assignments of the canned diagram
MockClassAssignments ==
    <<"class G1,G2,G3,G4 gate;",
      "class B,C intermediate;",
      "class D,E,F,G basic;",
      "class H,I basic;",
      "class A top;">>

MockDiagram(systemName) ==
    <<"flowchart TD", "A([", systemName, " Critical Failure])", "G1{OR}", "A --> G1",
      "G1 --> B([Hardware Subsystem Failure])", "G1 --> C([Software Subsystem Failure])",
      "G2{AND}", "B --> G2", "G2 --> D([Primary Component Failure])",
      "G2 --> E([Backup Component Failure])", "G3{OR}", "C --> G3",
      "G3 --> F([Logic Error])", "G3 --> G([Data Corruption])", "G4{AND}", "D --> G4",
      "G4 --> H([Mechanical Wear])", "G4 --> I([Environmental Stress])",
      "", "%% Professional FTA Styling">>
        \o ClassDefs \o <<"">> \o MockClassAssignments

generateMockFTA(systemDescription, isStructured) ==
    LET systemName == MockSystemName(systemDescription, isStructured)
    IN  [topEvent |-> <<systemName, " fails to perform critical function">>,
         mermaidDiagram |-> MockDiagram(systemName),
         events |-> <<
            [id |-> "A", type |-> "top",
             description |-> <<systemName, " critical failure">>,
             probability |-> "1E-6 per hour"],
            [id |-> "B", type |-> "intermediate",
             description |-> <<"Hardware subsystem failure">>,
             probability |-> "5E-5 per hour"],
            [id |-> "C", type |-> "intermediate",
             description |-> <<"Software subsystem failure">>,
             probability |-> "2E-5 per hour"],
            [id |-> "D", type |-> "basic",
             description |-> <<"Primary component failure">>,
             probability |-> "1E-4 per hour"]>>,
         gates |-> <<
            [id |-> "G1", type |-> "OR",
             description |-> "Either hardware or software failure causes system failure"],
            [id |-> "G2", type |-> "AND",
             description |-> "Both components must fail for hardware failure"]>>,
         analysis |-> [criticalPath |-> "Hardware failure through component degradation",
                       recommendations |-> <<"Implement hardware redundancy",
                                             "Add comprehensive diagnostics",
                                             "Establish preventive maintenance program">>]]

FallbackDescription == [description |-> "System analysis"]

\* faulty variant: the first entry of the fallback carries a rounded risk score
parseFMECAFallbackRounded(responseText) ==
    [generateMockFMECA(FallbackDescription, FALSE) EXCEPT !.fmecaTable[1].rpn = 100]

parseFMECAFallback(responseText) == generateMockFMECA(FallbackDescription, FALSE)

parseFTAFallback(responseText) == generateMockFTA(FallbackDescription, FALSE)

(***************************************************************************)
(* Validated system descriptions: structured (the structured schema lets   *)
(* components and safetyStandards be absent) or simple.                    *)
(***************************************************************************)
ComponentPool ==
    {[name |-> "Laser Emitter", function |-> "Emits laser pulses"],
     [name |-> "Processing Unit", function |-> "Calculates distance from raw data"]}

ComponentLists == SeqsUpTo(ComponentPool, MaxComponents) \ {<<>>}

StructuredBase ==
    [systemName |-> "Forward-Facing Lidar Unit",
     description |-> "Scans environment to detect obstacles"]

WithComponents == {StructuredBase @@ ("components" :> cs) : cs \in ComponentLists}

StructuredDescriptions ==
    {StructuredBase} \cup WithComponents
        \cup {d @@ ("safetyStandards" :> <<"ISO 26262", "DO-178C">>) :
                 d \in {w \in WithComponents : Len(w.components) = 1}}

SimpleDescriptions ==
    {[description |-> "A brake system for an autonomous vehicle"]}

HasField(obj, key) == key \in DOMAIN obj

(***************************************************************************)
(* Prompt building.  The fixed instruction text of a prompt is one piece.  *)
(* thrown = TRUE stands for the TypeError of reading .map of undefined.    *)
(***************************************************************************)
ComponentEntry(c) == <<c.name, ": ", c.function>>

\* faulty variant: the list is cut to its first component
ComponentsLineFirstOnly(components) == ComponentEntry(components[1])

ComponentsLine(components) ==
    Join([i \in 1..Len(components) |-> ComponentEntry(components[i])], ", ")

\* systemDescription.safetyStandards?.join(', ') || 'General Safety Principles'
SafetyStandardsLine(systemDescription) ==
    IF HasField(systemDescription, "safetyStandards")
          /\ systemDescription.safetyStandards # <<>>
    THEN Join([i \in 1..Len(systemDescription.safetyStandards) |->
                  <<systemDescription.safetyStandards[i]>>], ", ")
    ELSE <<"General Safety Principles">>

PromptThrows(systemDescription, isStructured) ==
    isStructured /\ ~HasField(systemDescription, "components")

FMECASystemInfo(systemDescription, isStructured) ==
    IF isStructured
    THEN <<"System: ", systemDescription.systemName,
           "\nDescription: ", systemDescription.description, "\nComponents: ">>
            \o ComponentsLine(systemDescription.components)
            \o <<"\nSafety Standards: ">> \o SafetyStandardsLine(systemDescription)
    ELSE <<"System Description: ", systemDescription.description>>

FMECAPrompt(systemDescription, isStructured) ==
    <<"You are a senior safety engineer with expertise in FMECA">>
        \o FMECASystemInfo(systemDescription, isStructured)
        \o <<"Generate a detailed FMECA analysis with the following requirements">>

FTASystemInfo(systemDescription, isStructured) ==
    IF isStructured
    THEN <<"System: ", systemDescription.systemName,
           "\nDescription: ", systemDescription.description, "\nComponents: ">>
            \o ComponentsLine(systemDescription.components)
    ELSE <<"System Description: ", systemDescription.description>>

FTAPrompt(systemDescription, isStructured) ==
    <<"You are a senior safety engineer expert in Fault Tree Analysis (FTA)">>
        \o FTASystemInfo(systemDescription, isStructured)
        \o <<"Generate an FTA with these requirements">>

(***************************************************************************)
(* generateFMECA and generateFTA behind the await.                         *)
(***************************************************************************)
NotParsed == [ok |-> FALSE, val |-> NoVal, ran |-> FALSE]
ParsedAs(p) == [ok |-> p.ok, val |-> p.val, ran |-> TRUE]

\* faulty variant: the rate-limit rule is missing, a 429 falls through to the canned data
FMECACatchNoRateLimit(error, systemDescription, isStructured) ==
    IF error.code = "insufficient_quota" THEN Rejected(QuotaMessage)
    ELSE IF error.code = "invalid_api_key" THEN Rejected(CredentialMessage)
    ELSE Resolved(generateMockFMECA(systemDescription, isStructured))

FMECACatch(error, systemDescription, isStructured) ==
    IF error.code = "insufficient_quota" THEN Rejected(QuotaMessage)
    ELSE IF error.code = "invalid_api_key" THEN Rejected(CredentialMessage)
    ELSE IF error.status = "429" THEN Rejected(RateLimitMessage)
    ELSE Resolved(generateMockFMECA(systemDescription, isStructured))

\* faulty variant: every error that carries an HTTP status is rethrown
FTACatchRethrowsStatus(error, systemDescription, isStructured) ==
    IF error.code = "insufficient_quota" THEN Rejected(QuotaMessage)
    ELSE IF error.code = "invalid_api_key" THEN Rejected(CredentialMessage)
    ELSE IF error.status # "none" THEN Rejected(RateLimitMessage)
    ELSE Resolved(generateMockFTA(systemDescription, isStructured))

\* faulty variant: the status is tested before the codes
FTACatchStatusFirst(error, systemDescription, isStructured) ==
    IF error.status = "429" THEN Rejected(RateLimitMessage)
    ELSE IF error.code = "insufficient_quota" THEN Rejected(QuotaMessage)
    ELSE IF error.code = "invalid_api_key" THEN Rejected(CredentialMessage)
    ELSE Resolved(generateMockFTA(systemDescription, isStructured))

FTACatch(error, systemDescription, isStructured) ==
    IF error.code = "insufficient_quota" THEN Rejected(QuotaMessage)
    ELSE IF error.code = "invalid_api_key" THEN Rejected(CredentialMessage)
    ELSE IF error.status = "429" THEN Rejected(RateLimitMessage)
    ELSE Resolved(generateMockFTA(systemDescription, isStructured))

\* faulty variant: the inner catch is missing the fallback, the data stays undefined
FMECAExtractNoFallback(content) ==
    IF content.isNull
    THEN [parsed |-> NotParsed, data |-> NoVal]
    ELSE LET p == JSONParse(JsonText(content.text))
         IN  [parsed |-> ParsedAs(p), data |-> p.val]

\* the inner try of generateFMECA: [parsed, data]
FMECAExtract(content) ==
    IF content.isNull
    THEN [parsed |-> NotParsed, data |-> parseFMECAFallback(content.text)]
    ELSE LET p == JSONParse(JsonText(content.text))
         IN  IF p.ok
             THEN [parsed |-> ParsedAs(p), data |-> p.val]
             ELSE [parsed |-> ParsedAs(p), data |-> parseFMECAFallback(content.text)]

\* faulty variant: the styling is put in front of the diagram instead of behind it
PrependStyling(ftaData) ==
    [ftaData EXCEPT !.fields["mermaidDiagram"] = Str(StylingBlock \o JsString(@))]

\* ftaData.mermaidDiagram += styling
AppendStyling(ftaData) ==
    [ftaData EXCEPT !.fields["mermaidDiagram"] = Str(JsString(@) \o StylingBlock)]

\* the inner try of generateFTA: [parsed, data]
FTAExtract(content) ==
    IF content.isNull
    THEN [parsed |-> NotParsed, data |-> parseFTAFallback(content.text)]
    ELSE LET p == JSONParse(JsonText(content.text))
         IN  IF ~p.ok \/ ReadThrows(p.val)
             THEN [parsed |-> ParsedAs(p), data |-> parseFTAFallback(content.text)]
             ELSE IF Truthy(GetField(p.val, "mermaidDiagram"))
             THEN [parsed |-> ParsedAs(p), data |-> AppendStyling(p.val)]
             ELSE [parsed |-> ParsedAs(p), data |-> p.val]

FMECASettle(outcome, systemDescription, isStructured) ==
    IF outcome.kind = "error"
    THEN [parsed |-> NotParsed, result |-> FMECACatch(outcome, systemDescription, isStructured)]
    ELSE IF outcome.choices = <<>>
    THEN [parsed |-> NotParsed, result |-> FMECACatch(TypeError, systemDescription, isStructured)]
    ELSE LET x == FMECAExtract(outcome.choices[1].content)
         IN  [parsed |-> x.parsed, result |-> Resolved(x.data)]

FTASettle(outcome, systemDescription, isStructured) ==
    IF outcome.kind = "error"
    THEN [parsed |-> NotParsed, result |-> FTACatch(outcome, systemDescription, isStructured)]
    ELSE IF outcome.choices = <<>>
    THEN [parsed |-> NotParsed, result |-> FTACatch(TypeError, systemDescription, isStructured)]
    ELSE LET x == FTAExtract(outcome.choices[1].content)
         IN  [parsed |-> x.parsed, result |-> Resolved(x.data)]

(***************************************************************************)
(* The keyword classifier.  Names and descriptions are character           *)
(* sequences here, so that toLowerCase and includes act on characters.     *)
(***************************************************************************)
ToLowerChar(c) ==
    CASE c = "A" -> "a"
      [] c = "B" -> "b"
      [] c = "C" -> "c"
      [] c = "D" -> "d"
      [] c = "E" -> "e"
      [] c = "F" -> "f"
      [] c = "G" -> "g"
      [] c = "H" -> "h"
      [] c = "I" -> "i"
      [] c = "J" -> "j"
      [] c = "K" -> "k"
      [] c = "L" -> "l"
      [] c = "M" -> "m"
      [] c = "N" -> "n"
      [] c = "O" -> "o"
      [] c = "P" -> "p"
      [] c = "Q" -> "q"
      [] c = "R" -> "r"
      [] c = "S" -> "s"
      [] c = "T" -> "t"
      [] c = "U" -> "u"
      [] c = "V" -> "v"
      [] c = "W" -> "w"
      [] c = "X" -> "x"
      [] c = "Y" -> "y"
      [] c = "Z" -> "z"
      [] OTHER -> c

ToLowerCase(text) == [i \in 1..Len(text) |-> ToLowerChar(text[i])]

AerospaceKeywords ==
    {<<"a", "i", "r", "c", "r", "a", "f", "t">>,
     <<"a", "v", "i", "a", "t", "i", "o", "n">>,
     <<"f", "l", "i", "g", "h", "t">>,
     <<"a", "e", "r", "o", "s", "p", "a", "c", "e">>}
AutomotiveKeywords ==
    {<<"a", "u", "t", "o", "m", "o", "t", "i", "v", "e">>,
     <<"v", "e", "h", "i", "c", "l", "e">>,
     <<"c", "a", "r">>,
     <<"b", "r", "a", "k", "e">>}
MedicalKeywords ==
    {<<"p", "a", "t", "i", "e", "n", "t">>,
     <<"m", "e", "d", "i", "c", "a", "l">>,
     <<"h", "o", "s", "p", "i", "t", "a", "l">>,
     <<"h", "e", "a", "l", "t", "h">>}

IncludesAny(text, keywords) == \E kw \in keywords : Includes(text, kw)

\* faulty variant: the automotive keywords are tested before the aerospace keywords
determineSystemTypeAutomotiveFirst(systemName, description) ==
    LET text == ToLowerCase(systemName \o <<" ">> \o description)
    IN  IF IncludesAny(text, AutomotiveKeywords) THEN "automotive"
        ELSE IF IncludesAny(text, AerospaceKeywords) THEN "aerospace"
        ELSE IF IncludesAny(text, MedicalKeywords) THEN "medical"
        ELSE "industrial"

\* faulty variant: the medical keywords are tested before the automotive keywords
determineSystemTypeMedicalFirst(systemName, description) ==
    LET text == ToLowerCase(systemName \o <<" ">> \o description)
    IN  IF IncludesAny(text, AerospaceKeywords) THEN "aerospace"
        ELSE IF IncludesAny(text, MedicalKeywords) THEN "medical"
        ELSE IF IncludesAny(text, AutomotiveKeywords) THEN "automotive"
        ELSE "industrial"

determineSystemType(systemName, description) ==
    LET text == ToLowerCase(systemName \o <<" ">> \o description)
    IN  IF IncludesAny(text, AerospaceKeywords) THEN "aerospace"
        ELSE IF IncludesAny(text, AutomotiveKeywords) THEN "automotive"
        ELSE IF IncludesAny(text, MedicalKeywords) THEN "medical"
        ELSE "industrial"

mockStructures ==
    [automotive |->
        [components |-> <<
            [name |-> "Electronic Control Unit", function |-> "Controls overall system operation and decision making"],
            [name |-> "Sensor Array", function |-> "Collects environmental and operational data"],
            [name |-> "Actuator System", function |-> "Executes control commands and physical actions"],
            [name |-> "Communication Interface", function |-> "Handles data exchange with other vehicle systems"],
            [name |-> "Power Management Unit", function |-> "Manages electrical power distribution and conditioning"]>>,
         connections |-> <<
            [from |-> "Sensor Array", to |-> "Electronic Control Unit", type |-> "Data signals"],
            [from |-> "Electronic Control Unit", to |-> "Actuator System", type |-> "Control signals"],
            [from |-> "Power Management Unit", to |-> "Electronic Control Unit", type |-> "Electrical power"],
            [from |-> "Electronic Control Unit", to |-> "Communication Interface", type |-> "Data bus"]>>,
         safetyStandards |-> <<
            [standard |-> "ISO 26262", requirement |-> "Functional safety for automotive systems"],
            [standard |-> "ISO 21448", requirement |-> "Safety of the intended functionality (SOTIF)"],
            [standard |-> "IEC 61508", requirement |-> "Functional safety of electrical systems"]>>],
     aerospace |->
        [components |-> <<
            [name |-> "Flight Control Computer", function |-> "Primary flight control processing and decision making"],
            [name |-> "Navigation Sensors", function |-> "Provides position, attitude, and velocity information"],
            [name |-> "Communication System", function |-> "Handles air traffic control and data link communications"],
            [name |-> "Display System", function |-> "Presents flight information to pilots"],
            [name |-> "Backup Systems", function |-> "Provides redundant functionality for critical operations"]>>,
         connections |-> <<
            [from |-> "Navigation Sensors", to |-> "Flight Control Computer", type |-> "Sensor data"],
            [from |-> "Flight Control Computer", to |-> "Display System", type |-> "Display data"],
            [from |-> "Communication System", to |-> "Flight Control Computer", type |-> "Communication data"],
            [from |-> "Backup Systems", to |-> "Flight Control Computer", type |-> "Redundant control"]>>,
         safetyStandards |-> <<
            [standard |-> "DO-178C", requirement |-> "Software considerations in airborne systems"],
            [standard |-> "DO-254", requirement |-> "Design assurance guidance for airborne electronic hardware"],
            [standard |-> "ARP4754A", requirement |-> "Guidelines for development of civil aircraft systems"]>>],
     industrial |->
        [components |-> <<
            [name |-> "Process Controller", function |-> "Controls industrial process parameters and sequences"],
            [name |-> "Monitoring Sensors", function |-> "Monitors process conditions and equipment status"],
            [name |-> "Safety Interlock System", function |-> "Provides emergency shutdown and safety protection"],
            [name |-> "Human Machine Interface", function |-> "Allows operator interaction and monitoring"],
            [name |-> "Data Logging System", function |-> "Records process data for analysis and compliance"]>>,
         connections |-> <<
            [from |-> "Monitoring Sensors", to |-> "Process Controller", type |-> "Process data"],
            [from |-> "Process Controller", to |-> "Safety Interlock System", type |-> "Safety signals"],
            [from |-> "Process Controller", to |-> "Human Machine Interface", type |-> "Status information"],
            [from |-> "Process Controller", to |-> "Data Logging System", type |-> "Historical data"]>>,
         safetyStandards |-> <<
            [standard |-> "IEC 61508", requirement |-> "Functional safety of electrical/electronic systems"],
            [standard |-> "IEC 61511", requirement |-> "Functional safety - Safety instrumented systems"],
            [standard |-> "ISO 13849", requirement |-> "Safety of machinery - Safety-related parts of control systems"]>>],
     medical |->
        [components |-> <<
            [name |-> "Patient Monitoring Unit", function |-> "Continuously monitors patient vital signs and parameters"],
            [name |-> "Alarm System", function |-> "Alerts medical staff to critical patient conditions"],
            [name |-> "Data Recording System", function |-> "Stores patient data for medical records and analysis"],
            [name |-> "Communication Interface", function |-> "Interfaces with hospital information systems"],
            [name |-> "Power Backup System", function |-> "Ensures continuous operation during power failures"]>>,
         connections |-> <<
            [from |-> "Patient Monitoring Unit", to |-> "Alarm System", type |-> "Alert signals"],
            [from |-> "Patient Monitoring Unit", to |-> "Data Recording System", type |-> "Patient data"],
            [from |-> "Data Recording System", to |-> "Communication Interface", type |-> "Medical records"],
            [from |-> "Power Backup System", to |-> "Patient Monitoring Unit", type |-> "Backup power"]>>,
         safetyStandards |-> <<
            [standard |-> "IEC 60601", requirement |-> "Medical electrical equipment safety requirements"],
            [standard |-> "ISO 14971", requirement |-> "Medical devices - Application of risk management"],
            [standard |-> "IEC 62304", requirement |-> "Medical device software - Software life cycle processes"]>>]]

\* return mockStructures[systemType] || mockStructures.industrial
generateMockSystemStructure(systemName, description) ==
    LET systemType == determineSystemType(systemName, description)
    IN  IF systemType \in DOMAIN mockStructures
        THEN mockStructures[systemType]
        ELSE mockStructures.industrial

(***************************************************************************)
(* generateSystemStructure behind the await.                               *)
(***************************************************************************)
\* faulty variant: only the presence of the list is checked, not its type
InvalidListPresenceOnly(structureData, key) ==
    ~Truthy(GetField(structureData, key))

\* !structureData[key] || !Array.isArray(structureData[key])
InvalidList(structureData, key) ==
    ~Truthy(GetField(structureData, key)) \/ ~IsArray(GetField(structureData, key))

StructureValid(structureData) ==
    /\ ~ReadThrows(structureData)
    /\ ~InvalidList(structureData, "components")
    /\ ~InvalidList(structureData, "connections")
    /\ ~InvalidList(structureData, "safetyStandards")

StructureSettle(outcome, systemName, description) ==
    IF outcome.kind = "error" \/ outcome.choices = <<>> \/ outcome.choices[1].content.isNull
    THEN [parsed |-> NotParsed,
          result |-> Resolved(generateMockSystemStructure(systemName, description))]
    ELSE LET p == JSONParse(Trim(outcome.choices[1].content.text))
         IN  IF p.ok /\ StructureValid(p.val)
             THEN [parsed |-> ParsedAs(p), result |-> Resolved(p.val)]
             ELSE [parsed |-> ParsedAs(p),
                   result |-> Resolved(generateMockSystemStructure(systemName, description))]

StructurePrompt(systemName, description) ==
    <<"You are a system engineering expert", "System Name: ">> \o systemName
        \o <<"\nDescription: ">> \o description
        \o <<"Respond ONLY with valid JSON, no additional text.">>

(***************************************************************************)
(* Names and descriptions explored for structure inference: fragments      *)
(* glued together without separators.                                      *)
(***************************************************************************)
Fragments ==
    {<<"A", "i", "r", "c", "r", "a", "f", "t">>,
     <<"A", "V", "I", "A", "T", "I", "O", "N">>,
     <<"F", "l", "i", "g", "h", "t">>,
     <<"a", "e", "r", "o", "s", "p", "a", "c", "e">>,
     <<"A", "u", "t", "o", "m", "o", "t", "i", "v", "e">>,
     <<"v", "e", "h", "i", "c", "l", "e">>,
     <<"c", "a", "r">>,
     <<"B", "R", "A", "K", "E">>,
     <<"P", "a", "t", "i", "e", "n", "t">>,
     <<"m", "e", "d", "i", "c", "a", "l">>,
     <<"H", "o", "s", "p", "i", "t", "a", "l">>,
     <<"h", "e", "a", "l", "t", "h">>,
     <<"a", "i", "r">>,
     <<"c", "r", "a", "f", "t">>,
     <<"s">>,
     <<"p", "u", "m", "p">>,
     <<" ">>}

RECURSIVE Glue(_)
Glue(fs) == IF fs = <<>> THEN <<>> ELSE Head(fs) \o Glue(Tail(fs))

SystemNames ==
    {<<"A", "i", "r", "c", "r", "a", "f", "t", " ", "F", "l", "i", "g", "h", "t", " ", "C", "o", "n", "t", "r", "o", "l">>,
     <<"P", "u", "m", "p">>,
     <<"H", "e", "a", "l", "t", "h", " ", "C", "a", "r">>,
     <<"b", "r", "a", "k", "e">>}

(***************************************************************************)
(* A call of one service function: the part before the await, and the      *)
(* part that runs when the completion request settles.                     *)
(***************************************************************************)
NoArgs == [none |-> TRUE]
NoCall == [pc |-> "none", result |-> Pending]
NoBody == [none |-> TRUE]

\* the client addresses of the explored requests
Ips == {"10.0.0.1", "10.0.0.2"}

NoWindow == [id |-> 0, resetAt |-> 0]

LimiterIdle ==
    /\ now = 0
    /\ hits = [ip \in Ips |-> 0]
    /\ window = [ip \in Ips |-> NoWindow]
    /\ letThrough = [ip \in Ips |-> <<>>]

\* useState(1), in tenths
InitialZoom == 10
ExportCopies == {"FTADiagram.jsx", "part_006"}

ViewInitial ==
    /\ zoom = InitialZoom
    /\ exportPc = "idle"
    /\ originalZoom = InitialZoom
    /\ exportCopy = "FTADiagram.jsx"

RouteIdle ==
    /\ routePc = "idle"
    /\ reqBody = NoBody
    /\ reqStructured = FALSE
    /\ fmeca = NoCall
    /\ fta = NoCall
    /\ responses = <<>>

Init ==
    /\ fn = "none"
    /\ pc = "idle"
    /\ args = NoArgs
    /\ prompt = <<>>
    /\ completion = NoCompletion
    /\ parsed = NotParsed
    /\ result = Pending
    /\ completionCalls = 0
    /\ RouteIdle
    /\ calls = <<>>
    /\ heap = <<>>
    /\ LimiterIdle
    /\ ViewInitial

\* the call reached openai.chat.completions.create with the prompt p
Invoke(f, a, p) ==
    /\ fn' = f
    /\ args' = a
    /\ prompt' = p
    /\ completionCalls' = completionCalls + 1
    /\ pc' = "awaiting"
    /\ UNCHANGED <<completion, parsed, result>>

\* the call settled before reaching the completion request
SettleEarly(f, a, r) ==
    /\ fn' = f
    /\ args' = a
    /\ result' = r
    /\ pc' = "done"
    /\ UNCHANGED <<prompt, completion, parsed, completionCalls>>

CallGenerateFMECA(systemDescription, structured) ==
    /\ pc = "idle"
    /\ LET a == [systemDescription |-> systemDescription, isStructured |-> structured]
       IN  IF PromptThrows(systemDescription, structured)
           THEN SettleEarly("generateFMECA", a, FMECACatch(TypeError, systemDescription, structured))
           ELSE Invoke("generateFMECA", a, FMECAPrompt(systemDescription, structured))
    /\ UNCHANGED <<routeVars, heapVars, limiterVars, viewVars>>

CallGenerateFTA(systemDescription, structured) ==
    /\ pc = "idle"
    /\ LET a == [systemDescription |-> systemDescription, isStructured |-> structured]
       IN  IF PromptThrows(systemDescription, structured)
           THEN SettleEarly("generateFTA", a, FTACatch(TypeError, systemDescription, structured))
           ELSE Invoke("generateFTA", a, FTAPrompt(systemDescription, structured))
    /\ UNCHANGED <<routeVars, heapVars, limiterVars, viewVars>>

CallGenerateSystemStructure(systemName, description) ==
    /\ pc = "idle"
    /\ Invoke("generateSystemStructure",
              [systemName |-> systemName, description |-> description],
              StructurePrompt(systemName, description))
    /\ UNCHANGED <<routeVars, heapVars, limiterVars, viewVars>>

Settle(f, outcome, a) ==
    CASE f = "generateFMECA" -> FMECASettle(outcome, a.systemDescription, a.isStructured)
      [] f = "generateFTA" -> FTASettle(outcome, a.systemDescription, a.isStructured)
      [] f = "generateSystemStructure" -> StructureSettle(outcome, a.systemName, a.description)

\* faulty variant: a failed completion request is issued once more
CompletionSettlesRetry(outcome) ==
    /\ pc = "awaiting"
    /\ IF outcome.kind = "error" /\ completion = NoCompletion
       THEN /\ completion' = outcome
            /\ completionCalls' = completionCalls + 1
            /\ UNCHANGED <<parsed, result, pc>>
       ELSE /\ completion' = outcome
            /\ parsed' = Settle(fn, outcome, args).parsed
            /\ result' = Settle(fn, outcome, args).result
            /\ pc' = "done"
            /\ UNCHANGED completionCalls
    /\ UNCHANGED <<fn, args, prompt, routeVars, heapVars, limiterVars, viewVars>>

CompletionSettles(outcome) ==
    /\ pc = "awaiting"
    /\ completion' = outcome
    /\ parsed' = Settle(fn, outcome, args).parsed
    /\ result' = Settle(fn, outcome, args).result
    /\ pc' = "done"
    /\ UNCHANGED <<fn, args, prompt, completionCalls, routeVars, heapVars, limiterVars, viewVars>>

\* the completion request fails with the error e
CompletionRejects(e) ==
    /\ e.kind = "error"
    /\ CompletionSettles(e)

\* the completion request returns the completion object c
CompletionResolves(c) ==
    /\ c.kind = "completion"
    /\ CompletionSettles(c)

ValidatedInputs ==
    {<<d, TRUE>> : d \in StructuredDescriptions} \cup {<<d, FALSE>> : d \in SimpleDescriptions}

StructureInputs == {<<n, <<"s", "y", "s", "t", "e", "m">>>> : n \in SystemNames}

\* the completion objects the pending request can return
AwaitedCompletions == IF pc = "awaiting" THEN Completions(fn) ELSE {}

(***************************************************************************)
(* Request validation of the analysis routes (Joi schemas).  StrLen is     *)
(* the length of the strings that occur in the explored request bodies.    *)
(***************************************************************************)
StrLen(str) ==
    CASE str = "Forward-Facing Lidar Unit" -> 25
      [] str = "Scans environment to detect obstacles" -> 37
      [] str = "Laser Emitter" -> 13
      [] str = "Emits laser pulses" -> 18
      [] str = "Processing Unit" -> 15
      [] str = "Calculates distance from raw data" -> 33
      [] str = "A brake system for an autonomous vehicle" -> 40
      [] str = "Short" -> 5
      [] str = "AB" -> 2
      [] str = "Detects obstacles" -> 17
      [] str = "L" -> 1

LenBetween(str, lo, hi) == lo <= StrLen(str) /\ StrLen(str) <= hi

StructuredKeys ==
    {"systemName", "description", "components", "connections",
     "operatingConditions", "safetyStandards"}

KnownStandards == {"ISO 26262", "MIL-STD-882E", "IEC 61508", "DO-178C", "ARP4754A"}

ComponentValid(c) ==
    /\ DOMAIN c = {"name", "function"}
    /\ LenBetween(c.name, 2, 50)
    /\ LenBetween(c.function, 5, 200)

\* faulty variant: the structured schema tolerates unknown keys
systemDescriptionSchemaAllowUnknown(body) ==
    /\ HasField(body, "systemName") /\ LenBetween(body.systemName, 3, 100)
    /\ HasField(body, "description") /\ LenBetween(body.description, 10, 1000)
    /\ HasField(body, "components") =>
          /\ Len(body.components) >= 1
          /\ \A i \in 1..Len(body.components) : ComponentValid(body.components[i])
    /\ HasField(body, "safetyStandards") =>
          \A i \in 1..Len(body.safetyStandards) : body.safetyStandards[i] \in KnownStandards

systemDescriptionSchema(body) ==
    /\ DOMAIN body \subseteq StructuredKeys
    /\ HasField(body, "systemName") /\ LenBetween(body.systemName, 3, 100)
    /\ HasField(body, "description") /\ LenBetween(body.description, 10, 1000)
    /\ HasField(body, "components") =>
          /\ Len(body.components) >= 1
          /\ Len(body.components) <= 20
          /\ \A i \in 1..Len(body.components) : ComponentValid(body.components[i])
    /\ HasField(body, "safetyStandards") =>
          \A i \in 1..Len(body.safetyStandards) : body.safetyStandards[i] \in KnownStandards

\* faulty variant: the simple schema has lost its minimum length
simpleDescriptionSchemaAnyLength(body) == DOMAIN body = {"description"}

simpleDescriptionSchema(body) ==
    /\ DOMAIN body = {"description"}
    /\ LenBetween(body.description, 20, 2000)

InvalidBodies ==
    {[description |-> "Short"],
     [systemName |-> "AB", description |-> "Scans environment to detect obstacles"],
     [systemName |-> "Forward-Facing Lidar Unit"],
     [description |-> "Detects obstacles"],
     [description |-> "A brake system for an autonomous vehicle", notes |-> "AB"],
     [systemName |-> "Forward-Facing Lidar Unit",
      description |-> "Scans environment to detect obstacles", components |-> <<>>],
     [systemName |-> "Forward-Facing Lidar Unit",
      description |-> "Scans environment to detect obstacles",
      safetyStandards |-> <<"ISO 9001">>]}

RequestBodies == StructuredDescriptions \cup SimpleDescriptions \cup InvalidBodies

(***************************************************************************)
(* The global error handler.                                               *)
(***************************************************************************)
ErrorObject(name, message) == [name |-> name, message |-> message, code |-> "none"]

LengthOfUndefined ==
    ErrorObject("TypeError",
        <<"Cannot", "read", "properties", "of", "undefined", "(reading", "'length')">>)

errorHandler(err, resStatusCode) ==
    LET s0 == [statusCode |-> IF resStatusCode = 200 THEN 500 ELSE resStatusCode,
               message |-> err.message]
        s1 == IF err.name = "ValidationError"
              THEN [statusCode |-> 400, message |-> <<"Validation", "Error">>] ELSE s0
        s2 == IF err.name = "CastError"
              THEN [statusCode |-> 400, message |-> <<"Invalid", "ID", "format">>] ELSE s1
        s3 == IF err.code = "11000"
              THEN [statusCode |-> 400, message |-> <<"Duplicate", "field", "value">>] ELSE s2
        s4 == IF Includes(err.message, <<"OpenAI">>)
              THEN [statusCode |-> 503,
                    message |-> <<"AI", "service", "temporarily", "unavailable">>]
              ELSE s3
        s5 == IF err.code \in {"ENOTFOUND", "ECONNREFUSED"}
              THEN [statusCode |-> 503,
                    message |-> <<"External", "service", "unavailable">>]
              ELSE s4
        s6 == IF Includes(err.message, <<"Too", "many", "requests">>)
              THEN [s5 EXCEPT !.statusCode = 429] ELSE s5
    IN  [status |-> s6.statusCode, body |-> [error |-> s6.message]]

(***************************************************************************)
(* POST /api/analysis/generate.                                            *)
(***************************************************************************)
BadRequest == [status |-> 400, body |-> [error |-> <<"Invalid", "input", "format">>]]

\* the response built when Promise.all has resolved; reading
\* validatedInput.components.length throws when there is no components list
SuccessResponse(body, structured, fmecaResult, ftaResult) ==
    IF structured /\ ~HasField(body, "components")
    THEN errorHandler(LengthOfUndefined, 200)
    ELSE [status |-> 200,
          body |-> [success |-> TRUE,
                    input |-> [type |-> IF structured THEN "structured" ELSE "simple",
                               systemName |-> IF structured THEN body.systemName
                                              ELSE "System Analysis"],
                    results |-> [fmeca |-> fmecaResult, fta |-> ftaResult],
                    metadata |-> [componentsAnalyzed |->
                                      IF structured THEN [count |-> Len(body.components)]
                                      ELSE [text |-> "N/A"],
                                  safetyStandards |->
                                      IF structured /\ HasField(body, "safetyStandards")
                                      THEN body.safetyStandards ELSE <<"General">>]]]

\* next(error) from the catch of the route
ErrorResponse(message) == errorHandler(ErrorObject("Error", message), 200)

\* faulty variant: the calls are joined as with allSettled, a rejected call is left
\* out of the results
ReactionAllSettled(body, structured, f, t) ==
    IF f.pc = "done" /\ t.pc = "done"
    THEN <<SuccessResponse(body, structured,
               IF f.result.status = "resolved" THEN f.result.value ELSE NoVal,
               IF t.result.status = "resolved" THEN t.result.value ELSE NoVal)>>
    ELSE <<>>

\* faulty variant: the calls are joined as with race, the first call that
\* settles decides the response
ReactionFirstSettled(body, structured, f, t) ==
    IF f.result.status = "rejected" THEN <<ErrorResponse(f.result.message)>>
    ELSE IF t.result.status = "rejected" THEN <<ErrorResponse(t.result.message)>>
    ELSE IF f.pc = "done" \/ t.pc = "done"
    THEN <<SuccessResponse(body, structured,
               IF f.pc = "done" THEN f.result.value ELSE NoVal,
               IF t.pc = "done" THEN t.result.value ELSE NoVal)>>
    ELSE <<>>

\* what the handler sends, if anything, once the two calls stand at f and t
\* and no response has been sent: Promise.all rejects with the first
\* rejection and resolves when both have resolved
Reaction(body, structured, f, t) ==
    IF f.result.status = "rejected" THEN <<ErrorResponse(f.result.message)>>
    ELSE IF t.result.status = "rejected" THEN <<ErrorResponse(t.result.message)>>
    ELSE IF f.pc = "done" /\ t.pc = "done"
    THEN <<SuccessResponse(body, structured, f.result.value, t.result.value)>>
    ELSE <<>>

\* an async call up to its await: done at once when prompt building throws
Started(earlyResult, throws) ==
    IF throws THEN [pc |-> "done", result |-> earlyResult]
    ELSE [pc |-> "awaiting", result |-> Pending]

\* the handler of POST /generate, from the validation to the await of
\* Promise.all
GenerateHandler(body) ==
    /\ reqBody' = body
    /\ IF ~systemDescriptionSchema(body) /\ ~simpleDescriptionSchema(body)
       THEN /\ responses' = <<BadRequest>>
            /\ routePc' = "responded"
            /\ UNCHANGED <<reqStructured, fmeca, fta, completionCalls>>
       ELSE LET structured == systemDescriptionSchema(body)
                throws == PromptThrows(body, structured)
                f == Started(FMECACatch(TypeError, body, structured), throws)
                t == Started(FTACatch(TypeError, body, structured), throws)
                sent == Reaction(body, structured, f, t)
            IN  /\ reqStructured' = structured
                /\ fmeca' = f
                /\ fta' = t
                /\ completionCalls' = completionCalls + (IF throws THEN 0 ELSE 2)
                /\ responses' = sent
                /\ routePc' = IF sent = <<>> THEN "awaitingAll" ELSE "responded"

PostGenerate(body) ==
    /\ routePc = "idle"
    /\ GenerateHandler(body)
    /\ UNCHANGED <<svcVars, heapVars, limiterVars, viewVars>>

\* the completion request of the generateFMECA call settles
FmecaSettles(outcome) ==
    /\ fmeca.pc = "awaiting"
    /\ LET f == [pc |-> "done", result |-> FMECASettle(outcome, reqBody, reqStructured).result]
           sent == IF routePc = "awaitingAll"
                   THEN Reaction(reqBody, reqStructured, f, fta) ELSE <<>>
       IN  /\ fmeca' = f
           /\ responses' = responses \o sent
           /\ routePc' = IF sent = <<>> THEN routePc ELSE "responded"
    /\ UNCHANGED <<reqBody, reqStructured, fta, completionCalls, svcVars, heapVars, limiterVars, viewVars>>

\* faulty variant: the handler answers again when the call settles after a
\* response was sent
FtaSettlesAnswersAgain(outcome) ==
    /\ fta.pc = "awaiting"
    /\ LET t == [pc |-> "done", result |-> FTASettle(outcome, reqBody, reqStructured).result]
           sent == IF t.result.status = "rejected"
                   THEN <<ErrorResponse(t.result.message)>>
                   ELSE IF routePc = "awaitingAll"
                   THEN Reaction(reqBody, reqStructured, fmeca, t) ELSE <<>>
       IN  /\ fta' = t
           /\ responses' = responses \o sent
           /\ routePc' = IF sent = <<>> THEN routePc ELSE "responded"
    /\ UNCHANGED <<reqBody, reqStructured, fmeca, completionCalls, svcVars, heapVars, limiterVars, viewVars>>

\* the completion request of the generateFTA call settles
FtaSettles(outcome) ==
    /\ fta.pc = "awaiting"
    /\ LET t == [pc |-> "done", result |-> FTASettle(outcome, reqBody, reqStructured).result]
           sent == IF routePc = "awaitingAll"
                   THEN Reaction(reqBody, reqStructured, fmeca, t) ELSE <<>>
       IN  /\ fta' = t
           /\ responses' = responses \o sent
           /\ routePc' = IF sent = <<>> THEN routePc ELSE "responded"
    /\ UNCHANGED <<reqBody, reqStructured, fmeca, completionCalls, svcVars, heapVars, limiterVars, viewVars>>

\* outcomes of a completion request explored for the route
RouteReplies == {<<Prose>>, <<LBrace, RBrace>>, <<Prose, LBrace, RBrace>>}

RouteOutcomes ==
    Errors \cup {Completion(<<>>)}
        \cup {Completion(<<[content |-> Content(r)]>>) : r \in RouteReplies}

NextRoute ==
    \/ \E body \in RequestBodies : PostGenerate(body)
    \/ \E o \in RouteOutcomes : FmecaSettles(o)
    \/ \E o \in RouteOutcomes : FtaSettles(o)

SpecRoute == Init /\ [][NextRoute]_vars

(***************************************************************************)
(* Structure inference with a failing completion request, over names and   *)
(* descriptions glued from fragments.                                      *)
(***************************************************************************)
MaxFragments == 2    \* fragments of a description

Descriptions == {Glue(fs) : fs \in SeqsUpTo(Fragments, MaxFragments) \ {<<>>}}

ClassifyErrors ==
    {[kind |-> "error", code |-> "insufficient_quota", status |-> "429"],
     [kind |-> "error", code |-> "ECONNRESET", status |-> "none"]}

NextClassify ==
    \/ \E n \in SystemNames, d \in Descriptions : CallGenerateSystemStructure(n, d)
    \/ \E e \in ClassifyErrors : CompletionRejects(e)

SpecClassify == Init /\ [][NextClassify]_vars

(***************************************************************************)
(* One call of a service function beside one combined generate request.    *)
(***************************************************************************)
CallInput == <<[description |-> "A brake system for an autonomous vehicle"], FALSE>>

CallReplies == {<<Prose>>, <<LBrace, RBrace>>}

NextCalls ==
    \/ CallGenerateFMECA(CallInput[1], CallInput[2])
    \/ CallGenerateFTA(CallInput[1], CallInput[2])
    \/ \E in \in StructureInputs : CallGenerateSystemStructure(in[1], in[2])
    \/ \E e \in ClassifyErrors : CompletionRejects(e)
    \/ \E r \in CallReplies : CompletionResolves(Completion(<<[content |-> Content(r)]>>))
    \/ NextRoute

SpecCalls == Init /\ [][NextCalls]_vars

(***************************************************************************)
(* Concurrent calls of the service functions and the objects they return.  *)
(* Every value a call resolves with is built by an object literal or by    *)
(* JSON.parse inside the call; the heap records the object of each         *)
(* returned reference, so that a caller writing to a returned object is    *)
(* visible to whoever else holds the same reference.                       *)
(***************************************************************************)
MaxCalls == 2    \* service calls started

\* what a caller's write leaves of an object
Mutated == [mutated |-> TRUE]

\* faulty variant: the payload is a module-level object, handed out again
\* when a call returns the same payload
AllocateShared(h, v) ==
    IF \E a \in DOMAIN h : h[a].built = v
    THEN [ref |-> CHOOSE a \in DOMAIN h : h[a].built = v, heap |-> h]
    ELSE [ref |-> Len(h) + 1, heap |-> Append(h, [built |-> v, val |-> v])]

\* the object literal (or JSON.parse) evaluated inside the call: a new object
Allocate(h, v) == [ref |-> Len(h) + 1, heap |-> Append(h, [built |-> v, val |-> v])]

ConcurrentInputs ==
    {<<"generateFMECA", [systemDescription |-> CallInput[1], isStructured |-> CallInput[2]]>>,
     <<"generateFTA", [systemDescription |-> CallInput[1], isStructured |-> CallInput[2]]>>,
     <<"generateSystemStructure",
       [systemName |-> <<"P", "u", "m", "p">>, description |-> <<"s", "y", "s", "t", "e", "m">>]>>}

ConcurrentOutcomes ==
    ClassifyErrors \cup {Completion(<<[content |-> Content(r)]>>) : r \in CallReplies}

\* a service function is called and reaches its completion request
StartCall(f, a) ==
    /\ Len(calls) < MaxCalls
    /\ calls' = Append(calls, [fn |-> f, args |-> a, pc |-> "awaiting",
                               outcome |-> NoCompletion, ref |-> 0, mutated |-> FALSE])
    /\ completionCalls' = completionCalls + 1
    /\ UNCHANGED <<heap, svcVars, routeVars, limiterVars, viewVars>>

\* the completion request of call i settles and the call returns
CallSettles(i, outcome) ==
    /\ i \in DOMAIN calls
    /\ calls[i].pc = "awaiting"
    /\ LET r == Settle(calls[i].fn, outcome, calls[i].args).result
           o == Allocate(heap, r.value)
       IN  IF r.status = "resolved"
           THEN /\ heap' = o.heap
                /\ calls' = [calls EXCEPT ![i].pc = "done", ![i].outcome = outcome,
                                          ![i].ref = o.ref]
           ELSE /\ calls' = [calls EXCEPT ![i].pc = "done", ![i].outcome = outcome]
                /\ UNCHANGED heap
    /\ UNCHANGED <<svcVars, completionCalls, routeVars, limiterVars, viewVars>>

\* the caller of call i writes to the object it was given
CallerMutates(i) ==
    /\ i \in DOMAIN calls
    /\ calls[i].ref # 0
    /\ ~calls[i].mutated
    /\ heap' = [heap EXCEPT ![calls[i].ref].val = Mutated]
    /\ calls' = [calls EXCEPT ![i].mutated = TRUE]
    /\ UNCHANGED <<svcVars, completionCalls, routeVars, limiterVars, viewVars>>

NextFresh ==
    \/ \E in \in ConcurrentInputs : StartCall(in[1], in[2])
    \/ \E i \in 1..MaxCalls, o \in ConcurrentOutcomes : CallSettles(i, o)
    \/ \E i \in 1..MaxCalls : CallerMutates(i)

SpecFresh == Init /\ [][NextFresh]_vars

(***************************************************************************)
(* The server beside the generate route: POST /api/analysis/validate and   *)
(* the requests no route matches (notFound, then the error handler).       *)
(***************************************************************************)
MaxSegments == 2    \* path segments of a requested URL

\* a body from one choice per key; Absent leaves the key out
Absent == [has |-> FALSE]
Some(v) == [has |-> TRUE, v |-> v]
Field(key, choice) == IF choice.has THEN key :> choice.v ELSE <<>>

NameChoices == {Absent, Some("AB"), Some("Forward-Facing Lidar Unit")}

DescriptionChoices ==
    {Absent, Some("Short"), Some("Detects obstacles"),
     Some("Scans environment to detect obstacles")}

ComponentsChoices ==
    {Absent, Some(<<>>),
     Some(<<[name |-> "Laser Emitter", function |-> "Emits laser pulses"]>>),
     Some(<<[name |-> "L", function |-> "Emits laser pulses"]>>)}

StandardsChoices == {Absent, Some(<<"ISO 26262">>), Some(<<"ISO 9001">>)}

NotesChoices == {Absent, Some("AB")}

BodyChoices ==
    NameChoices \X DescriptionChoices \X ComponentsChoices \X StandardsChoices \X NotesChoices

BodyOf(c) ==
    Field("systemName", c[1]) @@ Field("description", c[2]) @@ Field("components", c[3])
        @@ Field("safetyStandards", c[4]) @@ Field("notes", c[5])

ValidateBodies == {BodyOf(c) : c \in BodyChoices}

ValidateResponse(body) ==
    IF systemDescriptionSchema(body)
    THEN [status |-> 200,
          body |-> [valid |-> TRUE, format |-> "structured",
                    message |-> "Structured system description is valid"]]
    ELSE IF simpleDescriptionSchema(body)
    THEN [status |-> 200,
          body |-> [valid |-> TRUE, format |-> "simple",
                    message |-> "Simple text description is valid"]]
    ELSE [status |-> 400,
          body |-> [valid |-> FALSE, errors |-> {"structured", "simple"},
                    message |-> "Input does not match either structured or simple format"]]

PostValidate(body) ==
    /\ routePc = "idle"
    /\ reqBody' = body
    /\ responses' = <<ValidateResponse(body)>>
    /\ routePc' = "responded"
    /\ UNCHANGED <<reqStructured, fmeca, fta, completionCalls, svcVars, heapVars, limiterVars, viewVars>>

Methods == {"GET", "POST"}

Segments ==
    {"api", "analysis", "generate", "validate", "health", "examples", "unknown-endpoint",
     "OpenAI"}

Urls == SeqsUpTo(Segments, MaxSegments)

DefinedRoutes ==
    {<<"GET", <<>>>>, <<"GET", <<"api", "health">>>>,
     <<"POST", <<"api", "analysis", "generate">>>>,
     <<"POST", <<"api", "analysis", "validate">>>>,
     <<"POST", <<"api", "analysis", "generate-structure">>>>,
     <<"GET", <<"api", "analysis", "examples">>>>}

\* new Error(`Not Found - ${req.originalUrl}`)
notFound(url) == ErrorObject("Error", <<"Not", "Found", "-">> \o url)

\* a request that no route matches falls through to notFound, which sets
\* the status 404 and hands its error to the error handler
RequestUnmatched(method, url) ==
    /\ routePc = "idle"
    /\ <<method, url>> \notin DefinedRoutes
    /\ reqBody' = [method |-> method, url |-> url]
    /\ responses' = <<errorHandler(notFound(url), 404)>>
    /\ routePc' = "responded"
    /\ UNCHANGED <<reqStructured, fmeca, fta, completionCalls, svcVars, heapVars, limiterVars, viewVars>>

\* the error express.json hands to next() when the body is not JSON: a
\* SyntaxError to which the body parser has added status 400
BodyParseError ==
    [name |-> "SyntaxError",
     message |-> <<"Unexpected", "token", "j", "in", "JSON", "at", "position", "12">>,
     code |-> "none",
     status |-> 400]

\* a request with Content-Type application/json whose body does not parse:
\* express.json fails before any route runs, notFound is skipped and the
\* error handler answers; res.statusCode is still 200
RequestMalformed(method, url) ==
    /\ routePc = "idle"
    /\ reqBody' = [method |-> method, path |-> url, malformed |-> TRUE]
    /\ responses' = <<errorHandler(BodyParseError, 200)>>
    /\ routePc' = "responded"
    /\ UNCHANGED <<reqStructured, fmeca, fta, completionCalls, svcVars, heapVars, limiterVars, viewVars>>

NextServer ==
    \/ \E body \in ValidateBodies : PostValidate(body)
    \/ \E m \in Methods, u \in Urls : RequestUnmatched(m, u)
    \/ \E u \in Urls : RequestMalformed("POST", u)

SpecServer == Init /\ [][NextServer]_vars

(***************************************************************************)
(* The rate limiter in front of the routes under /api/analysis.  Time is   *)
(* counted in ticks; the limiter's window of one minute is TicksPerWindow  *)
(* ticks long.  A client's window opens with its first counted request and *)
(* is reset at most one window length later: exactly one window length     *)
(* later when the store keeps a reset time per client, earlier when the    *)
(* store resets all clients on a common timer.  The general limiter of     *)
(* /api/ (100 requests in 15 minutes) is not reached by the explored runs. *)
(***************************************************************************)
MaxTicks == 2        \* ticks of time explored
MaxLetThrough == 11  \* requests let through, all clients together
MaxRejections == 1   \* requests rejected per client and window
TicksPerWindow == 2  \* ticks in windowMs

\* max: 10
AnalysisMax == 10

TooManyAnalysis ==
    [status |-> 429,
     body |-> [error |-> <<"Too", "many", "analysis", "requests,", "please", "wait",
                           "before", "trying", "again.">>]]

LimiterBodies == {[description |-> "A brake system for an autonomous vehicle"]}

RECURSIVE TotalLetThrough(_)
TotalLetThrough(ips) ==
    IF ips = {} THEN 0
    ELSE LET ip == CHOOSE i \in ips : TRUE
         IN  Len(letThrough[ip]) + TotalLetThrough(ips \ {ip})

\* faulty variant: the request that exceeds max is still let through
LetThroughOneMore(totalHits) == totalHits <= AnalysisMax + 1

\* the limiter's decision for the request that raised the count to totalHits
LetThrough(totalHits) == totalHits <= AnalysisMax

\* a request to a route under /api/analysis: analysisLimiter counts it and
\* either answers 429 itself or calls next(), which reaches the route
AnalysisRequest(ip, body) ==
    /\ IF LetThrough(hits[ip] + 1)
       THEN TotalLetThrough(Ips) < MaxLetThrough
       ELSE hits[ip] < AnalysisMax + MaxRejections
    /\ hits' = [hits EXCEPT ![ip] = @ + 1]
    /\ \E r \in (now + 1)..(now + TicksPerWindow) :
          window' = IF hits[ip] = 0
                    THEN [window EXCEPT ![ip] = [id |-> @.id + 1, resetAt |-> r]]
                    ELSE window
    /\ IF LetThrough(hits[ip] + 1)
       THEN /\ letThrough' = [letThrough EXCEPT
                                 ![ip] = Append(@, [at |-> now, window |-> window'[ip].id])]
            /\ GenerateHandler(body)
       ELSE /\ reqBody' = body
            /\ responses' = <<TooManyAnalysis>>
            /\ routePc' = "responded"
            /\ UNCHANGED <<letThrough, reqStructured, fmeca, fta, completionCalls>>
    /\ UNCHANGED <<now, svcVars, heapVars, viewVars>>

\* time passes; the windows that end at the new time are reset
Tick ==
    /\ now < MaxTicks
    /\ now' = now + 1
    /\ hits' = [ip \in Ips |-> IF window[ip].resetAt = now + 1 THEN 0 ELSE hits[ip]]
    /\ UNCHANGED <<window, letThrough, svcVars, completionCalls, routeVars, heapVars, viewVars>>

NextLimiter ==
    \/ \E ip \in Ips, body \in LimiterBodies : AnalysisRequest(ip, body)
    \/ Tick

SpecLimiter == Init /\ [][NextLimiter]_vars

(***************************************************************************)
(* The zoom of the fault-tree view and exportToPDF, for the two copies of  *)
(* the component.  Zoom levels are counted in tenths.                      *)
(***************************************************************************)
minZoom == 3
maxZoom == 30
zoomStep == 2

handleZoomIn ==
    /\ zoom < maxZoom
    /\ zoom' = Min({zoom + zoomStep, maxZoom})
    /\ UNCHANGED <<exportPc, originalZoom, exportCopy>>
    /\ UNCHANGED <<svcVars, completionCalls, routeVars, heapVars, limiterVars>>

handleZoomOut ==
    /\ zoom > minZoom
    /\ zoom' = Max({zoom - zoomStep, minZoom})
    /\ UNCHANGED <<exportPc, originalZoom, exportCopy>>
    /\ UNCHANGED <<svcVars, completionCalls, routeVars, heapVars, limiterVars>>

handleZoomReset ==
    /\ zoom' = InitialZoom
    /\ UNCHANGED <<exportPc, originalZoom, exportCopy>>
    /\ UNCHANGED <<svcVars, completionCalls, routeVars, heapVars, limiterVars>>

\* exportToPDF up to its first await: originalZoom = zoom; setZoom(1)
ExportStarts(copy) ==
    /\ exportPc \in {"idle", "saved", "failed"}
    /\ exportCopy' = copy
    /\ originalZoom' = zoom
    /\ zoom' = InitialZoom
    /\ exportPc' = "waiting"
    /\ UNCHANGED <<svcVars, completionCalls, routeVars, heapVars, limiterVars>>

\* the timer of 500 ms fires and html2canvas is called
ExportRenders ==
    /\ exportPc = "waiting"
    /\ exportPc' = "rendering"
    /\ UNCHANGED <<zoom, originalZoom, exportCopy>>
    /\ UNCHANGED <<svcVars, completionCalls, routeVars, heapVars, limiterVars>>

\* the canvas is there, the PDF is built and saved: setZoom(originalZoom)
ExportSaves ==
    /\ exportPc = "rendering"
    /\ zoom' = originalZoom
    /\ exportPc' = "saved"
    /\ UNCHANGED <<originalZoom, exportCopy>>
    /\ UNCHANGED <<svcVars, completionCalls, routeVars, heapVars, limiterVars>>

\* a step of the export throws and the catch runs.  In FTADiagram.jsx
\* originalZoom is a const of the try block: the catch's
\* setZoom(originalZoom) throws a ReferenceError and sets nothing.  In the
\* other copy originalZoom is declared in front of the try.
ExportFails ==
    /\ exportPc = "rendering"
    /\ zoom' = IF exportCopy = "FTADiagram.jsx" THEN zoom ELSE originalZoom
    /\ exportPc' = "failed"
    /\ UNCHANGED <<originalZoom, exportCopy>>
    /\ UNCHANGED <<svcVars, completionCalls, routeVars, heapVars, limiterVars>>

NextExport ==
    \/ handleZoomIn
    \/ handleZoomOut
    \/ handleZoomReset
    \/ \E copy \in ExportCopies : ExportStarts(copy)
    \/ ExportRenders
    \/ ExportSaves
    \/ ExportFails

SpecExport == Init /\ [][NextExport]_vars

Next ==
    \/ \E in \in ValidatedInputs : CallGenerateFMECA(in[1], in[2])
    \/ \E in \in ValidatedInputs : CallGenerateFTA(in[1], in[2])
    \/ \E in \in StructureInputs : CallGenerateSystemStructure(in[1], in[2])
    \/ \E e \in Errors : CompletionRejects(e)
    \/ \E c \in AwaitedCompletions : CompletionResolves(c)

Spec == Init /\ [][Next]_vars

(***************************************************************************)
(* Properties.                                                             *)
(***************************************************************************)
ReportCall == fn \in {"generateFMECA", "generateFTA"}

HasReply ==
    /\ completion.kind = "completion"
    /\ completion.choices # <<>>
    /\ ~completion.choices[1].content.isNull

ReplyText == completion.choices[1].content.text

Failing == pc = "done" /\ completion.kind = "error"

NamedCodes == {"insufficient_quota", "invalid_api_key"}

NamedFailure == completion.code \in NamedCodes \/ completion.status = "429"

CannedFor(f, a) ==
    IF f = "generateFMECA"
    THEN generateMockFMECA(a.systemDescription, a.isStructured)
    ELSE generateMockFTA(a.systemDescription, a.isStructured)

FallbackFor(f) ==
    IF f = "generateFMECA"
    THEN generateMockFMECA([description |-> "System analysis"], FALSE)
    ELSE generateMockFTA([description |-> "System analysis"], FALSE)

\* C1: when the completion call of generateFMECA or generateFTA fails with
\* code insufficient_quota, with code invalid_api_key or with status 429, the
\* call rejects, never returning canned data, and the message tells the
\* failure kind: quota/billing, credential/configuration, or rate limit/retry
\* later, three pairwise distinct messages.
C1_NamedFailuresReject ==
    (ReportCall /\ Failing /\ NamedFailure) =>
        /\ result.status = "rejected"
        /\ completion.code = "insufficient_quota" =>
              /\ Includes(result.message, <<"quota">>)
              /\ Includes(result.message, <<"billing.">>)
              /\ ~Includes(result.message, <<"key.">>)
              /\ ~Includes(result.message, <<"rate", "limit">>)
        /\ completion.code = "invalid_api_key" =>
              /\ Includes(result.message, <<"key.">>)
              /\ Includes(result.message, <<"configuration.">>)
              /\ ~Includes(result.message, <<"quota">>)
              /\ ~Includes(result.message, <<"rate", "limit">>)
        /\ completion.code \notin NamedCodes =>
              /\ Includes(result.message, <<"rate", "limit">>)
              /\ Includes(result.message, <<"try", "again", "later.">>)
              /\ ~Includes(result.message, <<"quota">>)
              /\ ~Includes(result.message, <<"key.">>)

C1_Witness ==
    /\ fn = "generateFMECA"
    /\ Failing
    /\ completion.status = "429"
    /\ completion.code = "none"
    /\ result = Rejected(RateLimitMessage)

\* the inner try of the call ran JSON.parse and it threw, or reading the
\* parsed value threw
ExtractionFailed ==
    /\ HasReply
    /\ \/ ~JSONParse(JsonText(ReplyText)).ok
       \/ fn = "generateFTA" /\ ReadThrows(JSONParse(JsonText(ReplyText)).val)

\* C2: every failure of generateFMECA or generateFTA other than the three
\* named ones (another transport error, a malformed completion object, a
\* reply that cannot be read or parsed, a failure before the request) is
\* masked: the call resolves with the canned payload of its report kind, and
\* a call rejects only for one of the three named failures.
C2_OtherFailuresMasked ==
    (ReportCall /\ pc = "done") =>
        /\ (completion.kind = "error" /\ ~NamedFailure) =>
              result = Resolved(CannedFor(fn, args))
        /\ completion.kind = "none" => result = Resolved(CannedFor(fn, args))
        /\ (completion.kind = "completion" /\ completion.choices = <<>>) =>
              result = Resolved(CannedFor(fn, args))
        /\ (completion.kind = "completion" /\ completion.choices # <<>>
               /\ completion.choices[1].content.isNull) =>
              result = Resolved(FallbackFor(fn))
        /\ ExtractionFailed => result = Resolved(FallbackFor(fn))
        /\ result.status = "rejected" =>
              /\ completion.kind = "error"
              /\ NamedFailure
              /\ result.message \in {QuotaMessage, CredentialMessage, RateLimitMessage}

C2_Witness ==
    /\ fn = "generateFTA"
    /\ Failing
    /\ completion.code = "ECONNRESET"
    /\ completion.status = "500"
    /\ result = Resolved(generateMockFTA(args.systemDescription, args.isStructured))

\* the text JSON.parse is given is no JSON text: it is neither a bare value
\* nor a well-formed object
Unparseable(text) ==
    LET span == IF HasMatch(text) THEN JsonMatch(text) ELSE text
        json == SkipSpace(span)
    IN  /\ ~(Len(json) = 1 /\ IsBare(json[1]))
        /\ ~IsObjectText(json)

\* C3: for a reply text that cannot be parsed as JSON (no brace-delimited
\* span, or a malformed or truncated one), extraction does not throw and the
\* call returns the canned fallback object of its report kind, never null or
\* undefined.
C3_UnparseableGivesFallback ==
    (ReportCall /\ pc = "done" /\ HasReply /\ Unparseable(ReplyText)) =>
        /\ result = Resolved(FallbackFor(fn))
        /\ result.value \notin {Null, NoVal}

C3_Witness ==
    /\ fn = "generateFMECA"
    /\ pc = "done"
    /\ HasReply
    /\ HasMatch(ReplyText)
    /\ Len(JsonMatch(ReplyText)) >= 3
    /\ Unparseable(ReplyText)
    /\ result = Resolved(FallbackFor(fn))

\* the spans of the text that are JSON objects
ObjectSpans(text) ==
    {sp \in (1..Len(text)) \X (1..Len(text)) :
        /\ sp[1] < sp[2]
        /\ text[sp[1]] = LBrace
        /\ text[sp[2]] = RBrace
        /\ IsObjectText(SkipSpace(SubSeq(text, sp[1], sp[2])))}

TheSpan(text) == CHOOSE sp \in ObjectSpans(text) : TRUE

EmbeddedObject(text) ==
    [t |-> "object",
     fields |-> FieldsOf(SkipSpace(SubSeq(text, TheSpan(text)[1] + 1, TheSpan(text)[2] - 1)))]

ExtractedEmbedded(text) ==
    /\ parsed.ran
    /\ parsed.ok
    /\ parsed.val = EmbeddedObject(text)
    /\ fn = "generateFMECA" => result = Resolved(EmbeddedObject(text))

\* C4 as claimed: for every reply that holds exactly one JSON object inside
\* surrounding text, whatever that text contains, braces included, the
\* extracted object equals the embedded object parsed alone.
C4_AnySurroundingText ==
    (ReportCall /\ pc = "done" /\ HasReply /\ Cardinality(ObjectSpans(ReplyText)) = 1) =>
        ExtractedEmbedded(ReplyText)

\* C4 (amended): for every reply that holds exactly one JSON object inside
\* surrounding text with no "{" before the object and no "}" behind it, the
\* object JSON.parse returns in the call equals the embedded object parsed
\* alone, and generateFMECA returns it.
NoBraceAround(text) ==
    /\ \A i \in 1..(TheSpan(text)[1] - 1) : text[i] # LBrace
    /\ \A j \in (TheSpan(text)[2] + 1)..Len(text) : text[j] # RBrace

C4_BraceFreeSurroundings ==
    (ReportCall /\ pc = "done" /\ HasReply /\ Cardinality(ObjectSpans(ReplyText)) = 1
        /\ NoBraceAround(ReplyText)) =>
        ExtractedEmbedded(ReplyText)

C4_Witness ==
    /\ fn = "generateFTA"
    /\ pc = "done"
    /\ HasReply
    /\ Cardinality(ObjectSpans(ReplyText)) = 1
    /\ ReplyText[1] = Prose
    /\ ReplyText[Len(ReplyText)] = LBrace
    /\ Len(ReplyText) >= 5
    /\ ExtractedEmbedded(ReplyText)

\* the diagram text of a report: the canned payload holds it as it stands, a
\* parsed object as a string field
IsCanned(v) == "mermaidDiagram" \in DOMAIN v

HasDiagramText(v) ==
    IsCanned(v) \/ (v.t = "object" /\ GetField(v, "mermaidDiagram").t = "str")

DiagramText(v) == IF IsCanned(v) THEN v.mermaidDiagram ELSE GetField(v, "mermaidDiagram").s

FiveClassDefs ==
    <<"classDef gate fill:#2c3e50,stroke:#34495e,stroke-width:3px,color:#ffffff,font-weight:700;",
      "classDef event fill:#ecf0f1,stroke:#2c3e50,stroke-width:2px,color:#2c3e50,font-weight:600;",
      "classDef top fill:#e74c3c,stroke:#c0392b,stroke-width:3px,color:#ffffff,font-weight:700;",
      "classDef intermediate fill:#3498db,stroke:#2980b9,stroke-width:2px,color:#ffffff,font-weight:600;",
      "classDef basic fill:#f39c12,stroke:#e67e22,stroke-width:2px,color:#ffffff,font-weight:600;">>

FixedStyling ==
    FiveClassDefs \o <<"">>
        \o <<"class G1,G2,G3,G4,G5,G6 gate;", "class B,C,D,E,F,G,H,I,J,K intermediate;",
             "class L,M,N,O,P,Q,R,S,T,U basic;", "class A top;">>

CannedStyling ==
    FiveClassDefs \o <<"">>
        \o <<"class G1,G2,G3,G4 gate;", "class B,C intermediate;", "class D,E,F,G basic;",
             "class H,I basic;", "class A top;">>

FTAReturned == fn = "generateFTA" /\ pc = "done" /\ result.status = "resolved"

\* C6 as claimed: every report generateFTA returns, parsed or canned, has a
\* diagram text that ends with the same fixed styling block.
C6_EveryDiagramStyled ==
    FTAReturned =>
        /\ HasDiagramText(result.value)
        /\ EndsWith(DiagramText(result.value), FixedStyling)

\* C6 (amended): a report parsed from the reply whose mermaidDiagram is
\* truthy is returned with the reply's diagram text followed by the fixed
\* styling block; a parsed report whose mermaidDiagram is missing or falsy
\* is returned as parsed, without styling; the canned payload's diagram ends
\* with the same five classDef lines followed by its own class assignment
\* list.
C6_StylingWhereDiagramPresent ==
    FTAReturned =>
        IF IsCanned(result.value)
        THEN /\ EndsWith(DiagramText(result.value), CannedStyling)
             /\ ~EndsWith(DiagramText(result.value), FixedStyling)
        ELSE /\ parsed.ok
             /\ IF Truthy(GetField(parsed.val, "mermaidDiagram"))
                THEN /\ HasDiagramText(result.value)
                     /\ DiagramText(result.value) =
                            JsString(GetField(parsed.val, "mermaidDiagram"))
                                \o <<"", "%% Professional FTA Styling">> \o FixedStyling
                ELSE result.value = parsed.val

C6_Witness ==
    /\ FTAReturned
    /\ ~IsCanned(result.value)
    /\ GetField(parsed.val, "mermaidDiagram") = Str(<<"flowchart TD">>)
    /\ EndsWith(DiagramText(result.value), FixedStyling)
    /\ DiagramText(result.value)[1] = "flowchart TD"

StructureKeys == {"components", "connections", "safetyStandards"}

\* the three lists are present and array-typed
ListsPresent(v) ==
    IF "t" \in DOMAIN v
    THEN v.t = "object" /\ \A key \in StructureKeys :
            key \in DOMAIN v.fields /\ v.fields[key].t = "arr"
    ELSE \A key \in StructureKeys : key \in DOMAIN v /\ DOMAIN v[key] = 1..Len(v[key])

CannedStructures ==
    {mockStructures.automotive, mockStructures.aerospace,
     mockStructures.industrial, mockStructures.medical}

\* C7: generateSystemStructure resolves for every outcome of the completion
\* request, the quota, credential and rate-limit errors included, and what
\* it returns always has components, connections and safetyStandards present
\* and array-typed: the parsed reply when it passes that validation,
\* otherwise one of the four canned structures.
C7_StructureAlwaysResolves ==
    (fn = "generateSystemStructure" /\ pc = "done") =>
        /\ result.status = "resolved"
        /\ ListsPresent(result.value)
        /\ IF HasReply /\ JSONParse(Trim(ReplyText)).ok
                /\ ListsPresent(JSONParse(Trim(ReplyText)).val)
           THEN result.value = JSONParse(Trim(ReplyText)).val
           ELSE result.value \in CannedStructures

C7_Witness ==
    /\ fn = "generateSystemStructure"
    /\ Failing
    /\ completion.code = "invalid_api_key"
    /\ result.status = "resolved"
    /\ result.value \in CannedStructures

CasePairs ==
    {<<"A", "a">>, <<"B", "b">>, <<"C", "c">>, <<"D", "d">>, <<"E", "e">>, <<"F", "f">>, <<"G", "g">>, <<"H", "h">>, <<"I", "i">>, <<"J", "j">>, <<"K", "k">>, <<"L", "l">>, <<"M", "m">>, <<"N", "n">>, <<"O", "o">>, <<"P", "p">>, <<"Q", "q">>, <<"R", "r">>, <<"S", "s">>, <<"T", "t">>, <<"U", "u">>, <<"V", "v">>, <<"W", "w">>, <<"X", "x">>, <<"Y", "y">>, <<"Z", "z">>}

SameLetter(a, b) == a = b \/ <<a, b>> \in CasePairs \/ <<b, a>> \in CasePairs

\* kw occurs in text, in any letter case
OccursAnyCase(text, kw) ==
    \E i \in 0..(Len(text) - Len(kw)) : \A j \in 1..Len(kw) : SameLetter(text[i + j], kw[j])

AerospaceWords ==
    {<<"a", "i", "r", "c", "r", "a", "f", "t">>,
     <<"a", "v", "i", "a", "t", "i", "o", "n">>,
     <<"f", "l", "i", "g", "h", "t">>,
     <<"a", "e", "r", "o", "s", "p", "a", "c", "e">>}

OtherWords ==
    {<<"a", "u", "t", "o", "m", "o", "t", "i", "v", "e">>,
     <<"v", "e", "h", "i", "c", "l", "e">>,
     <<"c", "a", "r">>,
     <<"b", "r", "a", "k", "e">>,
     <<"p", "a", "t", "i", "e", "n", "t">>,
     <<"m", "e", "d", "i", "c", "a", "l">>,
     <<"h", "o", "s", "p", "i", "t", "a", "l">>,
     <<"h", "e", "a", "l", "t", "h">>}

NameAndDescription == args.systemName \o <<" ">> \o args.description

\* C8: when the completion request of a structure inference fails and the
\* name and description, joined by a space, contain an aerospace keyword
\* (aircraft, aviation, flight, aerospace) in any letter case, the aerospace
\* template is returned, whose components start with Flight Control
\* Computer, whatever other keywords the text contains.
C8_AerospaceKeywordWins ==
    (fn = "generateSystemStructure" /\ Failing
        /\ \E kw \in AerospaceWords : OccursAnyCase(NameAndDescription, kw)) =>
        /\ result = Resolved(mockStructures.aerospace)
        /\ result.value.components[1].name = "Flight Control Computer"

C8_Witness ==
    /\ fn = "generateSystemStructure"
    /\ Failing
    /\ \E kw \in AerospaceWords : OccursAnyCase(args.description, kw)
    /\ \E kw \in OtherWords : OccursAnyCase(NameAndDescription, kw)
    /\ \A kw \in AerospaceWords : ~Includes(NameAndDescription, kw)
    /\ result.value.components[1].name = "Flight Control Computer"

\* the position of the piece in front of the component entries
ComponentsAt(p) == CHOOSE i \in 1..Len(p) : p[i] = "\nComponents: "

\* C9: for a structured input with N components the prompt of generateFMECA
\* and of generateFTA holds, behind "Components: ", N entries, one per
\* component in the order of the input, each the component's name and
\* function verbatim; nothing is cut, reordered or left out.
C9_PromptListsComponents ==
    (ReportCall /\ pc \in {"awaiting", "done"} /\ args.isStructured /\ prompt # <<>>) =>
        LET cs == args.systemDescription.components
            at == ComponentsAt(prompt)
        IN  /\ \E i \in 1..Len(prompt) : prompt[i] = "\nComponents: "
            /\ Len(prompt) >= at + 4 * Len(cs)
            /\ \A i \in 1..Len(cs) :
                  /\ prompt[at + 4 * i - 3] = cs[i].name
                  /\ prompt[at + 4 * i - 2] = ": "
                  /\ prompt[at + 4 * i - 1] = cs[i].function
                  /\ prompt[at + 4 * i] = IF i < Len(cs) THEN ", "
                                          ELSE IF fn = "generateFMECA"
                                          THEN "\nSafety Standards: "
                                          ELSE "Generate an FTA with these requirements"

C9_Witness ==
    /\ fn = "generateFTA"
    /\ pc = "awaiting"
    /\ args.isStructured
    /\ Len(args.systemDescription.components) = MaxComponents
    /\ args.systemDescription.components[1] # args.systemDescription.components[2]
    /\ Includes(prompt, <<"Processing Unit", ": ", "Calculates distance from raw data", ", ",
                          "Laser Emitter", ": ", "Emits laser pulses">>)

Rejections == {c \in {fmeca, fta} : c.result.status = "rejected"}

ServiceUnavailable == <<"AI", "service", "temporarily", "unavailable">>

\* C5: the combined generate operation has no partial success: a response
\* with status 200 is sent only when both generations resolved and carries
\* both reports, and when one generation resolved and the other rejected the
\* one response sent is the error response for that rejection.
C5_NoPartialSuccess ==
    /\ \A i \in 1..Len(responses) :
          responses[i].status = 200 =>
              /\ fmeca.result.status = "resolved"
              /\ fta.result.status = "resolved"
              /\ responses[i].body.results.fmeca = fmeca.result.value
              /\ responses[i].body.results.fta = fta.result.value
    /\ \A c \in Rejections :
          (\A d \in {fmeca, fta} \ {c} : d.result.status = "resolved") =>
              /\ responses = <<ErrorResponse(c.result.message)>>
              /\ responses[1].status = 503
              /\ DOMAIN responses[1].body = {"error"}

C5_Witness ==
    /\ fmeca.result.status = "resolved"
    /\ fta.result = Rejected(CredentialMessage)
    /\ Len(responses) = 1
    /\ responses[1].status = 503
    /\ responses[1].body.error = ServiceUnavailable

\* C10: at the boundary of the generate operation a quota or credential
\* error of the core is answered as service unavailable, and a rate-limit
\* error is answered differently, with another status and another message
\* (try again shortly).
C10_RateLimitAnsweredApart ==
    \A c \in Rejections :
        (\A d \in Rejections : d.result.message = c.result.message) =>
            /\ c.result.message \in {QuotaMessage, CredentialMessage} =>
                  /\ responses[1].status = 503
                  /\ responses[1].body.error = ServiceUnavailable
            /\ c.result.message = RateLimitMessage =>
                  /\ responses[1].status # 503
                  /\ responses[1].body.error # ServiceUnavailable

\* the request was accepted by the validation of POST /generate
Accepted == routePc # "idle" /\ responses # <<BadRequest>>

InFlight == {c \in {fmeca, fta} : c.pc = "awaiting"}

\* C11 as claimed: both generations are started before either completes,
\* and a response, success or error, is sent only after both generations
\* have settled.
C11_RespondsAfterBothSettle ==
    Accepted =>
        /\ fmeca.pc # "none" /\ fta.pc # "none"
        /\ responses # <<>> => InFlight = {}

\* C11 (amended): both generations are started in the same step, before the
\* completion request of either settles; a success response is sent only
\* after both have resolved; an error response is sent as soon as the first
\* generation rejects, which may be while the other is still in flight (its
\* later outcome is discarded); at most one response is sent.
C11_SuccessAfterBothFailFast ==
    Accepted =>
        /\ fmeca.pc # "none" /\ fta.pc # "none"
        /\ Len(responses) <= 1
        /\ responses = <<>> <=> (Rejections = {} /\ InFlight # {})
        /\ \A i \in 1..Len(responses) :
              /\ responses[i].status = 200 => (InFlight = {} /\ Rejections = {})
              /\ InFlight # {} =>
                    \E c \in Rejections : responses[i] = ErrorResponse(c.result.message)

C11_Witness ==
    /\ fmeca.result = Rejected(QuotaMessage)
    /\ fta.pc = "awaiting"
    /\ responses = <<ErrorResponse(QuotaMessage)>>
    /\ routePc = "responded"

ReportKeys(f) ==
    IF f = "generateFMECA" THEN {"fmecaTable", "summary"}
    ELSE {"topEvent", "mermaidDiagram", "events", "gates", "analysis"}

\* v is a JSON value that is not an object: null, a number, a string, an array
NonObject(v) == "t" \in DOMAIN v /\ v.t # "object"

HasKeys(v, keys) ==
    IF NonObject(v) THEN FALSE
    ELSE IF "fields" \in DOMAIN v THEN keys \subseteq DOMAIN v.fields
    ELSE keys \subseteq DOMAIN v

ReportResolved == ReportCall /\ pc = "done" /\ result.status = "resolved"

\* C12: whenever generateFMECA or generateFTA resolves with an object, parsed
\* from the reply or substituted, the object has the full shape of its report
\* kind: fmecaTable and summary for a failure-mode report; topEvent,
\* mermaidDiagram, events, gates and analysis for a fault-tree report.
C12_ResolvedHasFullShape ==
    (ReportResolved /\ ~NonObject(result.value)) => HasKeys(result.value, ReportKeys(fn))

\* C13: when the reply text parses as JSON to a value that is not an object,
\* the canned payload of the report kind is returned; the operation never
\* returns a value that is not an object.
C13_NonObjectIsParseFailure ==
    ReportResolved =>
        /\ ~NonObject(result.value)
        /\ (parsed.ok /\ NonObject(parsed.val)) => result.value = FallbackFor(fn)

Ratings == 1..10

\* C14: in the canned failure-mode payload, for every system description and
\* either value of the structured flag, every entry's rpn equals severity
\* times occurrence times detection, each of the three an integer in 1..10;
\* the same holds for every canned failure-mode payload a call returns.
C14_CannedRiskScores ==
    /\ \A in \in ValidatedInputs :
          LET table == generateMockFMECA(in[1], in[2]).fmecaTable
          IN  \A i \in 1..Len(table) :
                 /\ {table[i].severity, table[i].occurrence, table[i].detection} \subseteq Ratings
                 /\ table[i].rpn = table[i].severity * table[i].occurrence * table[i].detection
    /\ (fn = "generateFMECA" /\ pc = "done" /\ result.status = "resolved"
           /\ "fmecaTable" \in DOMAIN result.value) =>
          \A i \in 1..Len(result.value.fmecaTable) :
             LET e == result.value.fmecaTable[i]
             IN  /\ {e.severity, e.occurrence, e.detection} \subseteq Ratings
                 /\ e.rpn = e.severity * e.occurrence * e.detection

C14_Witness ==
    /\ fn = "generateFMECA"
    /\ pc = "done"
    /\ HasReply
    /\ ~parsed.ok
    /\ result.status = "resolved"
    /\ Len(result.value.fmecaTable) = 3
    /\ result.value.fmecaTable[1].severity = 8
    /\ result.value.fmecaTable[1].occurrence = 3
    /\ result.value.fmecaTable[1].detection = 4
    /\ result.value.fmecaTable[1].rpn = 96

\* completion requests issued by the service call
ServiceCalls == IF fn # "none" /\ prompt # <<>> THEN 1 ELSE 0

\* completion requests issued for the combined generate request
RequestCalls ==
    IF Accepted /\ ~PromptThrows(reqBody, reqStructured) THEN 2 ELSE 0

\* C15: each call of generateFMECA, generateFTA or generateSystemStructure
\* issues at most one completion request, whatever its outcome (transport
\* failure, surfaced error, unparseable reply): the count does not grow when
\* the request settles; a combined generate request issues at most two.
C15_SingleAttempt ==
    /\ ServiceCalls <= 1
    /\ RequestCalls <= 2
    /\ completionCalls = ServiceCalls + RequestCalls

C15_Witness ==
    /\ fn = "generateSystemStructure"
    /\ Failing
    /\ result.status = "resolved"
    /\ fmeca.result = Rejected(RateLimitMessage)
    /\ fta.pc = "done" /\ fta.result.status = "resolved"
    /\ completionCalls = 3

Returned == {i \in DOMAIN calls : calls[i].pc = "done" /\ calls[i].ref # 0}

\* what call i returns, from its own arguments and its own outcome alone
OwnResult(i) == Settle(calls[i].fn, calls[i].outcome, calls[i].args).result

\* C16: no state is shared between requests: every value a call returns,
\* canned payloads included, is an object of its own, so for every
\* interleaving of concurrent calls the object a call returned holds what
\* that call's own arguments and outcome determine unless its own caller
\* wrote to it, whatever the callers of other calls did to theirs.
C16_FreshPerCall ==
    \A i \in DOMAIN calls :
        calls[i].pc = "done" =>
            /\ OwnResult(i).status = "resolved" <=> calls[i].ref # 0
            /\ i \in Returned =>
                  /\ calls[i].ref \in DOMAIN heap
                  /\ \A j \in Returned \ {i} : calls[j].ref # calls[i].ref
                  /\ ~calls[i].mutated => heap[calls[i].ref].val = OwnResult(i).value

C16_Witness ==
    /\ Len(calls) = 2
    /\ calls[1].fn = "generateFMECA" /\ calls[2].fn = "generateFMECA"
    /\ calls[1].outcome = calls[2].outcome
    /\ calls[1].outcome.kind = "error"
    /\ calls[1].mutated /\ ~calls[2].mutated
    /\ calls[2].ref # 0
    /\ heap[calls[1].ref].val = Mutated
    /\ heap[calls[2].ref].val = generateMockFMECA(calls[2].args.systemDescription, FALSE)

\* C17: for every body that passes validation and every outcome of the two
\* calls, POST /generate answers with status 200 or 503 and no other; a 200
\* answer has success = true and holds both results.fmeca and results.fta.
C17_Answers200Or503 ==
    Accepted =>
        \A i \in 1..Len(responses) :
            /\ responses[i].status \in {200, 503}
            /\ responses[i].status = 200 =>
                  /\ responses[i].body.success = TRUE
                  /\ {"fmeca", "fta"} \subseteq DOMAIN responses[i].body.results

\* the bodies that satisfy neither schema, listed by hand: a description
\* under 20 characters alone, a name under 3 characters, a missing
\* description, an unknown key beside a simple description, an empty
\* components list, an unknown safety standard
NeitherSchema ==
    {[description |-> "Short"],
     [description |-> "Detects obstacles"],
     [systemName |-> "AB", description |-> "Scans environment to detect obstacles"],
     [systemName |-> "Forward-Facing Lidar Unit"],
     [description |-> "A brake system for an autonomous vehicle", notes |-> "AB"],
     [systemName |-> "Forward-Facing Lidar Unit",
      description |-> "Scans environment to detect obstacles", components |-> <<>>],
     [systemName |-> "Forward-Facing Lidar Unit",
      description |-> "Scans environment to detect obstacles",
      safetyStandards |-> <<"ISO 9001">>]}

\* C19: POST /generate validates before it generates: a body that satisfies
\* neither schema is answered with 400 and an error field, and neither
\* generateFMECA nor generateFTA is called for it, so no completion request
\* is issued.
C19_ValidatesBeforeGenerating ==
    (routePc # "idle" /\ reqBody \in NeitherSchema) =>
        /\ Len(responses) = 1
        /\ responses[1].status = 400
        /\ "error" \in DOMAIN responses[1].body
        /\ fmeca = NoCall /\ fta = NoCall
        /\ completionCalls = 0

C19_Witness ==
    /\ reqBody = [description |-> "Detects obstacles"]
    /\ routePc = "responded"
    /\ responses[1].status = 400
    /\ completionCalls = 0

\* the claim's reading of the two schemas, on the choices a body is built from
StructuredChoice(c) ==
    /\ c[1] = Some("Forward-Facing Lidar Unit")
    /\ c[2] \in {Some("Detects obstacles"), Some("Scans environment to detect obstacles")}
    /\ c[3] \in {Absent, Some(<<[name |-> "Laser Emitter", function |-> "Emits laser pulses"]>>)}
    /\ c[4] \in {Absent, Some(<<"ISO 26262">>)}
    /\ c[5] = Absent

SimpleChoice(c) ==
    /\ c[2] = Some("Scans environment to detect obstacles")
    /\ \A k \in {1, 3, 4, 5} : c[k] = Absent

ValidateRequest == routePc = "responded" /\ DOMAIN reqBody \cap {"url", "malformed"} = {}

\* C18: POST /validate classifies every body: 200 valid=true
\* format='structured' when the body satisfies the structured schema,
\* otherwise 200 valid=true format='simple' when it is a description of at
\* least 20 characters and nothing else, otherwise 400 valid=false; no
\* generation is called and no completion request is issued.
C18_ValidateClassifies ==
    ValidateRequest =>
        /\ Len(responses) = 1
        /\ fmeca = NoCall /\ fta = NoCall /\ completionCalls = 0 /\ pc = "idle"
        /\ \A c \in BodyChoices :
              reqBody = BodyOf(c) =>
                  IF StructuredChoice(c)
                  THEN /\ responses[1].status = 200
                       /\ responses[1].body.valid = TRUE
                       /\ responses[1].body.format = "structured"
                  ELSE IF SimpleChoice(c)
                  THEN /\ responses[1].status = 200
                       /\ responses[1].body.valid = TRUE
                       /\ responses[1].body.format = "simple"
                  ELSE /\ responses[1].status = 400
                       /\ responses[1].body.valid = FALSE

C18_Witness ==
    /\ ValidateRequest
    /\ reqBody = [description |-> "Scans environment to detect obstacles"]
    /\ responses[1].status = 200
    /\ responses[1].body.format = "simple"

\* C20: every request to a route the server does not define, whatever the
\* method and whatever the requested URL contains, is answered with status
\* 404 and a JSON body that has an error field.
C20_UnknownRouteIs404 ==
    (routePc = "responded" /\ "url" \in DOMAIN reqBody) =>
        /\ Len(responses) = 1
        /\ responses[1].status = 404
        /\ "error" \in DOMAIN responses[1].body

\* C21: a request whose JSON body is malformed, for which the body parser
\* hands an error carrying status 400 to the error middleware before any
\* route runs, is answered with status 400.
C21_MalformedJsonIs400 ==
    (routePc = "responded" /\ "malformed" \in DOMAIN reqBody) =>
        /\ Len(responses) = 1
        /\ responses[1].status = BodyParseError.status

StructureDone == fn = "generateSystemStructure" /\ pc = "done"

\* C23: the structure pipeline extracts like the other two: when the reply
\* wraps one valid structure object (the three lists present and
\* array-typed) in surrounding text without braces, generateSystemStructure
\* returns that object, not a canned structure.
C23_StructureExtractsWrappedObject ==
    (StructureDone /\ HasReply /\ Cardinality(ObjectSpans(ReplyText)) = 1
        /\ NoBraceAround(ReplyText) /\ ListsPresent(EmbeddedObject(ReplyText))) =>
        result = Resolved(EmbeddedObject(ReplyText))

\* C24: prompt building has no failure mode: for every validated description
\* and either value of the structured flag, a structured description without
\* components included, a prompt is produced and the completion endpoint is
\* invoked with it.
C24_PromptAlwaysBuilt ==
    (ReportCall /\ pc # "idle") =>
        /\ prompt # <<>>
        /\ completionCalls = 1

\* C25: structure inference rejects empty lists: a parsed reply in which
\* components, connections or safetyStandards is an empty list is replaced
\* by canned data, like a reply in which the field is missing or not an
\* array.
C25_EmptyListsRejected ==
    (StructureDone /\ parsed.ok
        /\ \E key \in StructureKeys : GetField(parsed.val, key) = Arr(<<>>)) =>
        result.value \in CannedStructures

\* C26: the rules of the catch of generateFMECA and generateFTA apply in the
\* order quota, credential, rate limit, other: an error that matches several
\* rules is surfaced with the message of the first rule it matches, and is
\* replaced by canned data only when it matches none of the three.
C26_RulesInOrder ==
    (ReportCall /\ Failing) =>
        result = IF completion.code = "insufficient_quota" THEN Rejected(QuotaMessage)
                 ELSE IF completion.code = "invalid_api_key" THEN Rejected(CredentialMessage)
                 ELSE IF completion.status = "429" THEN Rejected(RateLimitMessage)
                 ELSE Resolved(CannedFor(fn, args))

C26_Witness ==
    /\ fn = "generateFTA"
    /\ Failing
    /\ completion.code = "insufficient_quota"
    /\ completion.status = "429"
    /\ result = Rejected(QuotaMessage)

\* the value is a canned payload of a report kind
CannedReport(v) == "fmecaTable" \in DOMAIN v \/ "mermaidDiagram" \in DOMAIN v

\* C27: for each report kind the substituted canned payload is one fixed
\* object: the payload returned after a masked transport failure equals the
\* payload returned after a parse failure of the reply, whatever the system
\* description of the request.
C27_OneCannedPayload ==
    (ReportResolved /\ CannedReport(result.value)
        /\ (Failing \/ (parsed.ran /\ ~parsed.ok))) =>
        result.value = FallbackFor(fn)

AutomotiveWords ==
    {<<"a", "u", "t", "o", "m", "o", "t", "i", "v", "e">>,
     <<"v", "e", "h", "i", "c", "l", "e">>,
     <<"c", "a", "r">>,
     <<"b", "r", "a", "k", "e">>}

MedicalWords == OtherWords \ AutomotiveWords

OccursAny(words) == \E kw \in words : OccursAnyCase(NameAndDescription, kw)

\* C28: the template of a failed structure inference is chosen by an
\* ordered rule list over the name, a space and the description, matched by
\* substring in any letter case: aerospace before automotive (automotive,
\* vehicle, car, brake) before medical (patient, medical, hospital, health),
\* and the industrial template exactly when none of the twelve keywords
\* occurs.
C28_OrderedClassifier ==
    (fn = "generateSystemStructure" /\ Failing) =>
        /\ result = Resolved(mockStructures[
               IF OccursAny(AerospaceWords) THEN "aerospace"
               ELSE IF OccursAny(AutomotiveWords) THEN "automotive"
               ELSE IF OccursAny(MedicalWords) THEN "medical"
               ELSE "industrial"])
        /\ result.value = mockStructures.industrial <=>
               ~OccursAny(AerospaceWords \cup OtherWords)

C28_Witness ==
    /\ fn = "generateSystemStructure"
    /\ Failing
    /\ ~OccursAny(AerospaceWords)
    /\ OccursAny(AutomotiveWords)
    /\ OccursAny(MedicalWords)
    /\ result = Resolved(mockStructures.automotive)

\* C29: every POST /generate is answered exactly once in every
\* interleaving of the two generations: never a second response, one
\* response once no generation is in flight, and a response that was sent
\* never changes; the rejection that occurs while no response has been sent
\* is the one whose error is answered, a later rejection is dropped.
C29_ExactlyOneResponse ==
    /\ [](/\ Len(responses) <= 1
          /\ (routePc # "idle" /\ InFlight = {}) => Len(responses) = 1)
    /\ [][/\ responses # <<>> => responses' = responses
          /\ \A k \in {"fmeca", "fta"} :
                LET before == IF k = "fmeca" THEN fmeca ELSE fta
                    after == IF k = "fmeca" THEN fmeca' ELSE fta'
                IN  (responses = <<>> /\ before.pc = "awaiting"
                        /\ after.result.status = "rejected") =>
                        responses' = <<ErrorResponse(after.result.message)>>]_vars

C29_Witness ==
    /\ fmeca.result = Rejected(RateLimitMessage)
    /\ fta.result = Rejected(QuotaMessage)
    /\ routePc = "responded"
    /\ responses = <<ErrorResponse(QuotaMessage)>>
    /\ responses[1].status = 503

\* the requests of the client that were let through at the ticks ts
LetThroughAt(ip, ts) == {i \in 1..Len(letThrough[ip]) : letThrough[ip][i].at \in ts}

\* the requests of the client that were let through in its window number w
LetThroughIn(ip, w) == {i \in 1..Len(letThrough[ip]) : letThrough[ip][i].window = w}

\* the limiter has just answered the request itself
LimiterRejected == responses = <<TooManyAnalysis>>

C30_ZoomRestored ==
    [][(exportPc \in {"waiting", "rendering"} /\ exportPc' \in {"saved", "failed"}) =>
          zoom' = originalZoom]_vars
====
